---- MODULE Spec2Model ----
(***************************************************************************)
(* CSI -> ICC code matching: the search endpoint (curated lookup, then     *)
(* the keyword-matcher fallback), the KeywordMatcher and the mapping       *)
(* synthesizer create_keyword_mappings, over the tables of models.py.      *)
(*                                                                         *)
(* Scores are fixed-point: a similarity s in [0,1] is the integer          *)
(* 1000 * s (0.1 -> 100, 0.42 -> 420).  TfidfVectorizer and                *)
(* cosine_similarity are library code: a section row carries, as "sim",    *)
(* the cosine similarity its searchable text has with the query text of    *)
(* each CSI code, and the vector matrix of a matcher is the sequence of    *)
(* those rows taken when the matcher was fitted.                           *)
(***************************************************************************)
EXTENDS Integers, Sequences, FiniteSets, TLC

\* ------------------------------------------------------------- bounds
\* rows the icc_sections table may hold
MaxSections == 2
\* rows the csi_icc_mappings table may hold
MaxMappings == 2
\* length of a match list handed to create_keyword_mappings
MaxMatches == 2
\* largest top_n a direct caller of find_matches passes
MaxTopN == 2
\* rows the icc_documents table may hold
MaxDocuments == 2

\* ---------------------------------------------------- program constants
\* search_codes: find_matches(csi_code_obj, top_n=10, min_score=0.1)
SearchTopN == 10
SearchMinScore == 100
\* _score_to_confidence thresholds 0.5, 0.3, 0.15
HighScore == 500
MediumScore == 300
LowScore == 150
\* the score 1.0 (the largest cosine similarity) in the fixed-point scale
ScoreOne == 1000
\* _find_matched_keywords returns sorted(...)[:5]
KeywordLimit == 5

\* Python's None (absent string filter, NULL column)
NULL == "NULL"
\* an absent (falsy) year filter
NoYear == 0

\* ------------------------------------------------------- value universes
\* the CSI code strings a POST /csi-codes may store (a stored row is named
\* by its code string, which is unique)
CsiCodeIds == {1, 2}
\* the code strings a request may name: those and one that is never stored
RequestCodes == CsiCodeIds \cup {3}

\* the ICC documents a POST /icc-documents may store
DocumentRows ==
    {[code |-> "IPC", year |-> 2018, state |-> NULL],
     [code |-> "IBC", year |-> 2021, state |-> "CO"]}

\* the tables icc_documents of the runs that do not write documents
SeededDocuments ==
    << [code |-> "IPC", year |-> 2018, state |-> NULL],
       [code |-> "IBC", year |-> 2021, state |-> "CO"] >>

\* the document ids a POST /icc-sections may name
DocumentIds == 1..MaxDocuments

\* similarity values of a section text with a query text (x 1000)
ScoreValues == {50, 100, 420}

StateFilters == {NULL, "CO"}
YearFilters == {NoYear, 2021}
DocumentFilters == {NULL, "IPC"}


VARIABLES
    csi_codes,      \* table csi_codes: the code strings of the stored rows
    icc_documents,  \* table icc_documents: sequence of rows, id = position
    icc_sections,   \* table icc_sections: sequence of rows, id = position
    mappings,       \* table csi_icc_mappings: committed rows, in insert order
    autoflush,      \* the Session's autoflush setting (SessionLocal)
    session_new,    \* the rows db.add-ed on the caller's Session, not yet committed
    session_active, \* whether the Session's transaction can be used: FALSE once a flush
                    \* has failed, until the caller rolls back or closes the Session
    process,        \* what is fixed for the server process: tie order of argsort, string hash seed
    pc,             \* search_codes: "CuratedLookup", "FallbackMatch" or "Done"
    req,            \* the SearchRequest being served
    result,         \* search_codes' local dict `result`
    matcher,        \* the KeywordMatcher object
    calls,          \* the calls the request in flight has made, in order
    response,       \* what the last request handler returned or raised
    matches,        \* what the last find_matches call returned or raised
    last            \* the last direct call (a write, initialize) and its outcome,
                    \* NoCall once a search has made a step since

vars == << csi_codes, icc_documents, icc_sections, mappings, autoflush, session_new, session_active,
           process, pc, req, result, matcher, calls, response, matches, last >>

\* ------------------------------------------------------------- helpers
Min(a, b) == IF a < b THEN a ELSE b

Range(s) == {s[i] : i \in DOMAIN s}

NoRequest == [csi_code |-> 0, state |-> NULL, year |-> NoYear, icc_document |-> NULL]
None == [none |-> TRUE]
NoCall == [op |-> "none"]


\* ------------------------------------------------------ storage reads
\* crud.get_csi_code: the CSI row with this code string, or None
get_csi_code(code) ==
    IF code \in csi_codes THEN [id |-> code] ELSE None

\* seeded defect: the year filter is not applied
DocumentPasses_no_year(d, state, year, icc_document) ==
    /\ (state # NULL => icc_documents[d].state = state)
    /\ (icc_document # NULL => icc_documents[d].code = icc_document)

\* the optional filters of get_icc_sections_for_csi_code, applied to the
\* document d: `if state:` / `if year:` / `if icc_document:`
DocumentPasses(d, state, year, icc_document) ==
    /\ (state # NULL => icc_documents[d].state = state)
    /\ (year # NoYear => icc_documents[d].year = year)
    /\ (icc_document # NULL => icc_documents[d].code = icc_document)

\* the orders in which a set can be listed
RECURSIVE iteration_orders(_)
iteration_orders(S) ==
    IF S = {} THEN {<<>>}
    ELSE UNION {{<< x >> \o o : o \in iteration_orders(S \ {x})} : x \in S}

\* crud.get_icc_sections_for_csi_code: ICCSection joined with the mapping,
\* CSI and document tables, one section per joined mapping row.  The query
\* has no ORDER BY: query.all() returns the joined rows in the order the
\* database's plan yields them, so the value is the set of the lists the
\* call may return (uix_csi_icc lets a code join a section once)
get_icc_sections_for_csi_code(csi_code, state, year, icc_document) ==
    LET Joined(m) ==
            /\ m.csi_code_id \in csi_codes
            /\ m.csi_code_id = csi_code
            /\ m.icc_section_id \in DOMAIN icc_sections
            /\ icc_sections[m.icc_section_id].document_id \in DOMAIN icc_documents
            /\ DocumentPasses(icc_sections[m.icc_section_id].document_id,
                              state, year, icc_document)
        rows == SelectSeq(mappings, Joined)
    IN  iteration_orders({rows[i].icc_section_id : i \in DOMAIN rows})

\* seeded defect: no `if not csi: return None`
search_csi_to_icc_no_check(csi_code, state, year, icc_document) ==
    {[csi_code |-> get_csi_code(csi_code),
      icc_sections |-> sections,
      total_results |-> Len(sections)] :
        sections \in get_icc_sections_for_csi_code(csi_code, state, year,
                                                   icc_document)}

\* seeded defect: total_results counts the code's mappings before the
\* filters are applied
search_csi_to_icc_total_unfiltered(csi_code, state, year, icc_document) ==
    LET csi == get_csi_code(csi_code)
    IN  IF csi = None THEN {None}
        ELSE {[csi_code |-> csi,
               icc_sections |-> sections,
               total_results |-> Len(unfiltered)] :
                sections \in get_icc_sections_for_csi_code(csi_code, state, year,
                                                           icc_document),
                unfiltered \in get_icc_sections_for_csi_code(csi_code, NULL,
                                                             NoYear, NULL)}

\* crud.search_csi_to_icc: the results the call may return (one per order
\* of the section list), {None} for a code that is not stored
search_csi_to_icc(csi_code, state, year, icc_document) ==
    LET csi == get_csi_code(csi_code)
    IN  IF csi = None THEN {None}
        ELSE {[csi_code |-> csi,
               icc_sections |-> sections,
               total_results |-> Len(sections)] :
                sections \in get_icc_sections_for_csi_code(csi_code, state, year,
                                                           icc_document)}

\* ------------------------------------------------------ KeywordMatcher
\* KeywordMatcher.__init__: no sections, icc_vectors = None (fitted FALSE)
KeywordMatcher ==
    [icc_sections |-> <<>>, icc_vectors |-> <<>>, fitted |-> FALSE]

\* the rows initialize's query selects:
\* db.query(ICCSection).join(ICCDocument), filtered by ICCDocument.code
\* when icc_document_code is given
Selected(icc_document_code) ==
    {i \in DOMAIN icc_sections :
        /\ icc_sections[i].document_id \in DOMAIN icc_documents
        /\ (icc_document_code # NULL =>
                icc_documents[icc_sections[i].document_id].code = icc_document_code)}

\* The query has no ORDER BY: query.all() lists the rows in the order of
\* the database's plan (a scan of the sections, or of the documents and
\* then their sections, ...).  A scan is the order in which the plan visits
\* the rows of the section table.  The scans of a table of n rows: every
\* order of a table of up to MaxSections rows; of a longer one, by id,
\* forwards or backwards
ScanOrders(n) ==
    IF n <= MaxSections THEN iteration_orders(1..n)
    ELSE {[p \in 1..n |-> p], [p \in 1..n |-> n + 1 - p]}

\* query.all() of initialize under the scan `scan`
LoadSections(icc_document_code, scan) ==
    LET rows == Selected(icc_document_code)
        InRows(i) == i \in rows
    IN  SelectSeq(scan, InRows)

\* seeded defect: no `if not self.icc_sections: raise ValueError`
initialize_no_empty_check(m, icc_document_code, fault, scan) ==
    IF fault = "load" THEN [matcher |-> m, raised |-> "Exception"]
    ELSE IF fault = "fit"
    THEN [matcher |-> [m EXCEPT !.icc_sections = LoadSections(icc_document_code, scan)],
          raised |-> "Exception"]
    ELSE [matcher |->
            [icc_sections |-> LoadSections(icc_document_code, scan),
             icc_vectors |->
                [i \in DOMAIN LoadSections(icc_document_code, scan) |->
                    icc_sections[LoadSections(icc_document_code, scan)[i]].sim],
             fitted |-> TRUE],
          raised |-> NULL]

\* seeded defect: the empty-corpus check comes after fit_transform
initialize_check_after_fit(m, icc_document_code, fault, scan) ==
    IF fault = "load" THEN [matcher |-> m, raised |-> "Exception"]
    ELSE
        LET loaded == [m EXCEPT !.icc_sections = LoadSections(icc_document_code, scan)]
            fit == [loaded EXCEPT
                        !.icc_vectors =
                            [i \in DOMAIN loaded.icc_sections |->
                                icc_sections[loaded.icc_sections[i]].sim],
                        !.fitted = TRUE]
        IN  IF fault = "fit"
            THEN [matcher |-> loaded, raised |-> "Exception"]
            ELSE IF loaded.icc_sections = <<>>
            THEN [matcher |-> fit, raised |-> "ValueError"]
            ELSE [matcher |-> fit, raised |-> NULL]

\* KeywordMatcher.initialize on matcher m, the query listing its rows in
\* the order of `scan`.  fault "load": query.all() raises; fault "fit":
\* fit_transform raises.  Returns the matcher as the call leaves it and the
\* exception raised (NULL: none).
initialize(m, icc_document_code, fault, scan) ==
    IF fault = "load" THEN [matcher |-> m, raised |-> "Exception"]
    ELSE
        LET loaded == [m EXCEPT !.icc_sections = LoadSections(icc_document_code, scan)]
        IN  IF loaded.icc_sections = <<>>
            THEN [matcher |-> loaded, raised |-> "ValueError"]
            ELSE IF fault = "fit"
            THEN [matcher |-> loaded, raised |-> "Exception"]
            ELSE [matcher |->
                    [loaded EXCEPT
                        !.icc_vectors =
                            [i \in DOMAIN loaded.icc_sections |->
                                icc_sections[loaded.icc_sections[i]].sim],
                        !.fitted = TRUE],
                  raised |-> NULL]

\* seeded defect: the thresholds are exclusive
_score_to_confidence_strict(score) ==
    IF score > HighScore THEN "high"
    ELSE IF score > MediumScore THEN "medium"
    ELSE IF score > LowScore THEN "low"
    ELSE "very_low"

\* Texts are sequences of tokens (a word, or the single space " "); the
\* empty text <<>> stands for '' and for None, which Python's `if` treats
\* alike.  An Optional[int] is <<>> (None) or <<n>>.

\* " ".join(parts)
RECURSIVE join(_)
join(parts) ==
    IF parts = <<>> THEN <<>>
    ELSE IF Len(parts) = 1 THEN parts[1]
    ELSE parts[1] \o <<" ">> \o join(Tail(parts))

\* str(n) for n >= 0: the decimal digits
RECURSIVE str(_)
str(n) ==
    LET digit == <<"0", "1", "2", "3", "4", "5", "6", "7", "8", "9">>
    IN  IF n < 10 THEN <<digit[n + 1]>>
        ELSE str(n \div 10) \o <<digit[(n % 10) + 1]>>

\* seeded defect: the title is appended once
_create_searchable_text_title_once(section) ==
    join((IF section.section_number # <<>> THEN <<section.section_number>> ELSE <<>>)
         \o (IF section.title # <<>> THEN <<section.title>> ELSE <<>>)
         \o (IF section.description # <<>> THEN <<section.description>> ELSE <<>>)
         \o (IF section.chapter # <<>> /\ section.chapter # <<0>>
             THEN << <<"chapter", " ">> \o str(section.chapter[1]) >>
             ELSE <<>>))

\* KeywordMatcher._create_searchable_text
_create_searchable_text(section) ==
    LET parts0 == <<>>
        parts1 == IF section.section_number # <<>>
                  THEN Append(parts0, section.section_number) ELSE parts0
        parts2 == IF section.title # <<>>
                  THEN Append(Append(parts1, section.title), section.title)
                  ELSE parts1
        parts3 == IF section.description # <<>>
                  THEN Append(parts2, section.description) ELSE parts2
        parts4 == IF section.chapter # <<>> /\ section.chapter # <<0>>
                  THEN Append(parts3, <<"chapter", " ">> \o str(section.chapter[1]))
                  ELSE parts3
    IN  join(parts4)

\* _score_to_confidence
_score_to_confidence(score) ==
    IF score >= HighScore THEN "high"
    ELSE IF score >= MediumScore THEN "medium"
    ELSE IF score >= LowScore THEN "low"
    ELSE "very_low"

\* np.argsort(similarities): the indices in ascending order of value.  The
\* default kind sorts the same array the same way every time, and which of
\* two equal values comes first is the build's choice (the sort is not
\* stable): `ties` is that choice.  Index i has place ties.head[i] among
\* its equals when the head lists it, and otherwise its own place, which
\* counts from the far end when ties.tail_reversed.
argsort(similarities, ties) ==
    LET n == Len(similarities)
        Place(i) == IF i \in DOMAIN ties.head THEN ties.head[i]
                    ELSE IF ties.tail_reversed THEN 0 - i ELSE i
        Rank(i) == 1 + Cardinality({j \in 1..n :
                        \/ similarities[j] < similarities[i]
                        \/ (similarities[j] = similarities[i]
                                /\ Place(j) < Place(i))})
    IN  [p \in 1..n |-> CHOOSE i \in 1..n : Rank(i) = p]

\* s[::-1]
Reversed(s) == [p \in 1..Len(s) |-> s[Len(s) + 1 - p]]

\* seeded defect: no [:top_n]
top_indices_all(similarities, top_n, ties) ==
    Reversed(argsort(similarities, ties))

\* np.argsort(similarities)[::-1][:top_n]   (top_n >= 0)
top_indices(similarities, top_n, ties) ==
    SubSeq(Reversed(argsort(similarities, ties)), 1, Min(top_n, Len(similarities)))

\* ------------------------------------------- _find_matched_keywords
\* str.lower() on the words of the texts below
lower(word) ==
    CASE word = "Water" -> "water"
      [] word = "Heaters" -> "heaters"
      [] word = "AND" -> "and"
      [] word = "VALVE" -> "valve"
      [] word = "COPPER" -> "copper"
      [] word = "The" -> "the"
      [] word = "Pipe" -> "pipe"
      [] word = "Means" -> "means"
      [] word = "Egress" -> "egress"
      [] word = "Exit" -> "exit"
      [] word = "Signs" -> "signs"
      [] OTHER -> word

\* str.split(): the maximal runs of non-space tokens of a text, in order;
\* `word` is the run read so far
RECURSIVE split_run(_, _)
split_run(text, word) ==
    LET done == IF word = "" THEN <<>> ELSE << word >>
    IN  IF text = <<>> THEN done
        ELSE IF Head(text) = " " THEN done \o split_run(Tail(text), "")
        ELSE split_run(Tail(text), word \o Head(text))

split(text) == split_run(text, "")

\* lower() of a text, token by token (a space stays a space)
lower_text(text) == [i \in DOMAIN text |-> lower(text[i])]

\* the stop_words set of line 177
stop_words ==
    {"the", "a", "an", "and", "or", "but", "in", "on", "at", "to", "for",
     "of", "with", "by"}

\* the elements of `order` whose length is n, then those of every smaller
\* length: a stable sort by descending length
RECURSIVE by_len_from(_, _)
by_len_from(order, n) ==
    IF n = 0 THEN <<>>
    ELSE LET HasLen(w) == Len(w) = n
         IN  SelectSeq(order, HasLen) \o by_len_from(order, n - 1)

\* the longest element of a sequence of words (0 when empty)
RECURSIVE max_len(_)
max_len(order) ==
    IF order = <<>> THEN 0
    ELSE IF Len(Head(order)) > max_len(Tail(order))
    THEN Len(Head(order)) ELSE max_len(Tail(order))

\* seeded defect: sorted(matched, key=len), shortest first
RECURSIVE by_len_upto(_, _, _)
by_len_upto(order, n, top) ==
    IF n > top THEN <<>>
    ELSE LET HasLen(w) == Len(w) = n
         IN  SelectSeq(order, HasLen) \o by_len_upto(order, n + 1, top)

sorted_by_len_ascending(order) == by_len_upto(order, 1, max_len(order))

\* sorted(matched, key=len, reverse=True) when iterating `matched` yields
\* `order`: elements of equal length keep the order of the iteration
sorted_by_len(order) == by_len_from(order, max_len(order))

\* seeded defect: no [:5]
_find_matched_keywords_uncut(query, text, order) ==
    sorted_by_len(order)

\* _find_matched_keywords(query, text) (lines 168-185) when the iteration
\* of the set `matched` yields `order`
_find_matched_keywords(query, text, order) ==
    LET ranked == sorted_by_len(order)
    IN  SubSeq(ranked, 1, Min(KeywordLimit, Len(ranked)))

\* the set `matched` of line 182
matched_words(query, text) ==
    LET query_words == Range(split(lower_text(query))) \ stop_words
        text_words == Range(split(lower_text(text))) \ stop_words
    IN  query_words \cap text_words

\* the text columns a CSI row is stored with, by code string
csi_code_rows ==
    [c \in CsiCodeIds |->
        IF c = 1
        THEN [code |-> <<"22", " ", "33", " ", "00">>,
              title |-> <<"Water", " ", "Heaters">>,
              description |-> <<"gas", " ", "pipe", " ", "tap", " ",
                                "copper", " ", "drain">>]
        ELSE [code |-> <<"10", " ", "14", " ", "00">>,
              title |-> <<"Exit", " ", "Signs">>,
              description |-> <<"the", " ", "means", " ", "of", " ", "egress">>]]

\* KeywordMatcher._create_csi_query (lines 146-166)
_create_csi_query(csi_code) ==
    LET parts0 == <<>>
        parts1 == IF csi_code.code # <<>>
                  THEN Append(parts0, csi_code.code) ELSE parts0
        parts2 == IF csi_code.title # <<>>
                  THEN parts1 \o << csi_code.title, csi_code.title, csi_code.title >>
                  ELSE parts1
        parts3 == IF csi_code.description # <<>>
                  THEN Append(parts2, csi_code.description) ELSE parts2
    IN  join(parts3)

\* the text columns of the sections of a document, by the document's code
\* (the sections of one document are given the same words; their
\* similarity to a query is the row's `sim`, which is not computed from
\* these words)
section_columns(document_code) ==
    IF document_code = "IPC"
    THEN [section_number |-> <<"501.1">>,
          title |-> <<"Water", " ", "Heaters">>,
          chapter |-> <<5>>,
          description |-> <<"COPPER", " ", "pipe", " ", "gas", " ",
                            "tap", " ", "and">>]
    ELSE [section_number |-> <<"1001">>,
          title |-> <<"Means", " ", "of", " ", "Egress">>,
          chapter |-> <<>>,
          description |-> <<>>]

\* the hash seeds of the runs' processes (PYTHONHASHSEED)
HashSeeds == {0, 1}

\* the order in which a process iterates a set of strings: fixed for the
\* process by its string hash seed, and another one under another seed
iteration_order(S, hash_seed) ==
    LET order == CHOOSE o \in iteration_orders(S) : TRUE
    IN  IF hash_seed = 0 THEN order ELSE Reversed(order)

\* find_matches lines 132-135: the matched keywords of the query of code c
\* and the text of a section of a document, in a process with a hash seed
matched_keywords ==
    [c \in CsiCodeIds |->
        [document_code \in {row.code : row \in DocumentRows} |->
            [hash_seed \in HashSeeds |->
                LET query_text == _create_csi_query(csi_code_rows[c])
                    text == _create_searchable_text(section_columns(document_code))
                IN  _find_matched_keywords(
                        query_text, text,
                        iteration_order(matched_words(query_text, text),
                                        hash_seed))]]]

\* the value `process` takes in a run: a tie order of argsort over arrays
\* of up to n elements (and, when the run has longer arrays, either order
\* of the places beyond n) and a hash seed
Processes(n, longer) ==
    [ties : [head : iteration_orders(1..n),
             tail_reversed : IF longer THEN BOOLEAN ELSE {FALSE}],
     hash_seed : HashSeeds]

\* seeded defect: a score equal to min_score is skipped too
find_matches_exclusive(m, csi_code, top_n, min_score, fault) ==
    IF ~m.fitted THEN [raised |-> "RuntimeError", results |-> <<>>]
    ELSE IF fault = "find" THEN [raised |-> "Exception", results |-> <<>>]
    ELSE
        LET similarities ==
                [i \in DOMAIN m.icc_vectors |-> m.icc_vectors[i][csi_code.id]]
            top == top_indices(similarities, top_n, process.ties)
            Clears(idx) == similarities[idx] > min_score
            kept == SelectSeq(top, Clears)
        IN  [raised |-> NULL,
             results |->
                [k \in DOMAIN kept |->
                    [section |-> m.icc_sections[kept[k]],
                     score |-> similarities[kept[k]],
                     matched_keywords |->
                         matched_keywords[csi_code.id]
                             [icc_documents[icc_sections[m.icc_sections[kept[k]]]
                                                .document_id].code]
                             [process.hash_seed],
                     confidence |-> _score_to_confidence(similarities[kept[k]])]]]

\* seeded defect: no `if self.icc_vectors is None: raise RuntimeError`
find_matches_no_fit_check(m, csi_code, top_n, min_score, fault) ==
    IF fault = "find" THEN [raised |-> "Exception", results |-> <<>>]
    ELSE
        LET similarities ==
                [i \in DOMAIN m.icc_vectors |-> m.icc_vectors[i][csi_code.id]]
            top == top_indices(similarities, top_n, process.ties)
            Clears(idx) == ~(similarities[idx] < min_score)
            kept == SelectSeq(top, Clears)
        IN  IF \E k \in DOMAIN kept : kept[k] > Len(m.icc_sections)
            THEN [raised |-> "IndexError", results |-> <<>>]
            ELSE [raised |-> NULL,
                  results |->
                    [k \in DOMAIN kept |->
                        [section |-> m.icc_sections[kept[k]],
                         score |-> similarities[kept[k]],
                         matched_keywords |->
                             matched_keywords[csi_code.id]
                                 [icc_documents[icc_sections[m.icc_sections[kept[k]]]
                                                    .document_id].code]
                                 [process.hash_seed],
                         confidence |-> _score_to_confidence(similarities[kept[k]])]]]

\* KeywordMatcher.find_matches on matcher m for the CSI row csi_code, in
\* the process of the run.  fault "find": transform / cosine_similarity
\* raises.
find_matches(m, csi_code, top_n, min_score, fault) ==
    IF ~m.fitted THEN [raised |-> "RuntimeError", results |-> <<>>]
    ELSE IF fault = "find" THEN [raised |-> "Exception", results |-> <<>>]
    ELSE
        LET similarities ==
                [i \in DOMAIN m.icc_vectors |-> m.icc_vectors[i][csi_code.id]]
            top == top_indices(similarities, top_n, process.ties)
            Clears(idx) == ~(similarities[idx] < min_score)
            kept == SelectSeq(top, Clears)
        IN  IF \E k \in DOMAIN kept : kept[k] > Len(m.icc_sections)
            THEN [raised |-> "IndexError", results |-> <<>>]
            ELSE [raised |-> NULL,
                  results |->
                    [k \in DOMAIN kept |->
                        [section |-> m.icc_sections[kept[k]],
                         score |-> similarities[kept[k]],
                         matched_keywords |->
                             matched_keywords[csi_code.id]
                                 [icc_documents[icc_sections[m.icc_sections[kept[k]]]
                                                    .document_id].code]
                                 [process.hash_seed],
                         confidence |-> _score_to_confidence(similarities[kept[k]])]]]

\* what a find_matches call leaves with its caller: the outcome, and the
\* arguments of the call
matches_record(found, csi_code, top_n, min_score) ==
    [raised |-> found.raised,
     results |-> found.results,
     csi_code_id |-> csi_code.id,
     top_n |-> top_n,
     min_score |-> min_score]

\* ------------------------------------------------------ storage writes
\* (the handlers are plain `def` functions, each request runs on a thread
\* of its own with a session of its own: a write can be committed between
\* any two statements of another handler.  The tables only grow.)

\* the locals of search_codes before a request is served
ResetSearch ==
    /\ pc' = "CuratedLookup"
    /\ req' = NoRequest
    /\ result' = None
    /\ matcher' = None
    /\ calls' = <<>>
    /\ response' = None
    /\ matches' = None

\* a write handler returns: it shares nothing with a search in flight,
\* whose locals stay as they are; the locals of a search that has returned
\* are gone
WriteReturns ==
    IF pc = "Done"
    THEN ResetSearch
    ELSE UNCHANGED << pc, req, result, matcher, calls, response, matches >>

\* POST /csi-codes: routers.create_csi_code (400 when get_csi_code finds
\* the code), then crud.create_csi_code (add, commit; CSICode.code is
\* unique).  stale: the code was committed by another request after this
\* handler's check and before its commit.
create_csi_code(code, stale) ==
    /\ stale => code \in csi_codes
    /\ LET existing == IF stale THEN None ELSE get_csi_code(code)
           status == IF existing # None THEN 400
                     ELSE IF code \in csi_codes THEN 500 ELSE 201
       IN  /\ csi_codes' = IF status = 201 THEN csi_codes \cup {code} ELSE csi_codes
           /\ last' = [op |-> "create_csi_code",
                       code |-> code,
                       status |-> status,
                       detail |-> IF status = 400 THEN "CSI code already exists"
                                  ELSE NULL,
                       raised |-> IF status = 500 THEN "IntegrityError" ELSE NULL]
    /\ WriteReturns
    /\ UNCHANGED << icc_documents, icc_sections, mappings, autoflush, session_new, session_active, process >>

\* UniqueConstraint('code', 'year', 'state', name='uix_code_year_state'):
\* rows with a NULL state never count as equal
uix_code_year_state(table) ==
    \A i, j \in DOMAIN table :
        (table[i] = table[j] /\ table[i].state # NULL) => i = j

\* POST /icc-documents: routers.create_icc_document + crud.create_icc_document
\* (add, commit; no check before)
create_icc_document(document) ==
    /\ LET status == IF uix_code_year_state(Append(icc_documents, document))
                     THEN 201 ELSE 500
       IN  /\ status = 201 => Len(icc_documents) < MaxDocuments
           /\ icc_documents' = IF status = 201 THEN Append(icc_documents, document)
                               ELSE icc_documents
           /\ last' = [op |-> "create_icc_document",
                       status |-> status,
                       raised |-> IF status = 500 THEN "IntegrityError" ELSE NULL]
    /\ WriteReturns
    /\ UNCHANGED << csi_codes, icc_sections, mappings, autoflush, session_new, session_active, process >>

\* POST /icc-sections: routers.create_icc_section (404 unless the document
\* exists), then crud.create_icc_section
create_icc_section(document_id, sim) ==
    /\ LET status == IF document_id \notin DOMAIN icc_documents THEN 404 ELSE 201
       IN  /\ status = 201 => Len(icc_sections) < MaxSections
           /\ icc_sections' =
                IF status = 201
                THEN Append(icc_sections, [document_id |-> document_id, sim |-> sim])
                ELSE icc_sections
           /\ last' = [op |-> "create_icc_section",
                       status |-> status,
                       detail |-> IF status = 404 THEN "ICC document not found"
                                  ELSE NULL]
    /\ WriteReturns
    /\ UNCHANGED << csi_codes, icc_documents, mappings, autoflush, session_new, session_active, process >>

\* UniqueConstraint('csi_code_id', 'icc_section_id', name='uix_csi_icc')
uix_csi_icc(table) ==
    \A i, j \in DOMAIN table :
        (/\ table[i].csi_code_id = table[j].csi_code_id
         /\ table[i].icc_section_id = table[j].icc_section_id) => i = j

\* Session.commit with the rows `pending` added: the INSERTs are flushed in
\* order in one transaction; a row that breaks uix_csi_icc raises
\* IntegrityError and the transaction is rolled back
commit(pending) ==
    IF uix_csi_icc(mappings \o pending)
    THEN [table |-> mappings \o pending, raised |-> NULL]
    ELSE [table |-> mappings, raised |-> "IntegrityError"]

\* routers.create_mapping (404 unless both rows exist), then
\* crud.create_mapping (add, commit): what the handler does to storage and
\* what its caller gets
post_mapping(csi_code_id, icc_section_id, relevance) ==
    /\ LET row == [csi_code_id |-> csi_code_id,
                   icc_section_id |-> icc_section_id,
                   relevance |-> relevance,
                   notes |-> [auto |-> FALSE, score |-> 0]]
           done == commit(<<row>>)
           status == IF csi_code_id \notin csi_codes \/ icc_section_id \notin DOMAIN icc_sections
                     THEN 404
                     ELSE IF done.raised # NULL THEN 500 ELSE 201
       IN  /\ status = 201 => Len(done.table) <= MaxMappings
           /\ mappings' = IF status = 201 THEN done.table ELSE mappings
           /\ last' = [op |-> "create_mapping",
                       csi_code_id |-> csi_code_id,
                       icc_section_id |-> icc_section_id,
                       status |-> status,
                       raised |-> IF status = 500 THEN done.raised ELSE NULL,
                       before |-> mappings]

\* POST /mappings among the requests of the API
create_mapping(csi_code_id, icc_section_id, relevance) ==
    /\ post_mapping(csi_code_id, icc_section_id, relevance)
    /\ WriteReturns
    /\ UNCHANGED << csi_codes, icc_documents, icc_sections, autoflush, session_new, session_active, process >>

\* POST /mappings while callers of the synthesizer run: the handler has a
\* session of its own and shares nothing with them
create_mapping_meanwhile(csi_code_id, icc_section_id, relevance) ==
    /\ post_mapping(csi_code_id, icc_section_id, relevance)
    /\ UNCHANGED << csi_codes, icc_documents, icc_sections, autoflush, session_new, session_active,
                    process, pc, req, result, matcher, calls, response, matches >>

\* ------------------------------------------- create_keyword_mappings
\* (In the runs of the synthesizer pc, req, result, response and
\* session_new hold one value per caller, each caller with a session of
\* its own: req[p] is the call's arguments, result[p] the loop's position,
\* the rows the call has added and the table as it was when the call was
\* made, response[p] what the call returned or raised.  A session sees the
\* committed rows and its own added rows, never the rows another session
\* has added and not committed.)

\* the default relevance_map (keyword_matcher.py 222-228)
DefaultRelevanceMap ==
    [high |-> "primary", medium |-> "secondary",
     low |-> "reference", very_low |-> "reference"]

\* seeded defect: relevance_map.get(confidence, 'primary')
relevance_get_primary(relevance_map, confidence) ==
    IF confidence \in DOMAIN relevance_map
    THEN relevance_map[confidence]
    ELSE "primary"

\* relevance_map.get(confidence, 'reference')
relevance_get(relevance_map, confidence) ==
    IF confidence \in DOMAIN relevance_map
    THEN relevance_map[confidence]
    ELSE "reference"

\* the rows the existence query of line 242 sees: the committed ones and,
\* on an autoflushing session, the rows added on the session so far
visible_rows(pending) ==
    IF autoflush THEN mappings \o pending ELSE mappings

\* the keys create_keyword_mappings reads from a match dict (lines 233-236)
MatchKeys == {"section", "confidence", "score", "matched_keywords"}

\* (Session semantics of SQLAlchemy, which the code relies on and never
\* overrides: a flush that fails, at an autoflush or inside db.commit(),
\* rolls the transaction back, expunges the rows added on the session and
\* leaves the session inactive; create_keyword_mappings has no try and no
\* db.rollback(), so the session stays inactive when the call has raised,
\* and every later query on it raises PendingRollbackError.)

\* seeded defect: no existence query, every match is added
loop_body_no_check(csi_code_id, match, relevance_map, pending, active) ==
    IF ~(MatchKeys \subseteq DOMAIN match)
    THEN [pending |-> pending, active |-> active, raised |-> "KeyError"]
    ELSE
        LET relevance == relevance_get(relevance_map, match.confidence)
            mapping == [csi_code_id |-> csi_code_id,
                        icc_section_id |-> match.section,
                        relevance |-> relevance,
                        notes |-> [auto |-> TRUE, score |-> match.score]]
        IN  [pending |-> Append(pending, mapping),
             active |-> active,
             raised |-> NULL]

\* one pass of the loop of create_keyword_mappings (lines 232-260) for the
\* match dict `match`, on a session whose added rows are `pending` and
\* whose transaction is usable or not (`active`): the rows added on the
\* session when the pass ends, the state of the session, and the exception
\* that ended the pass.  A match dict without one of the keys read at
\* 233-236 raises KeyError and leaves the session as it is (no rollback).
\* The query of 242-245 raises PendingRollbackError on an inactive
\* session.  On an autoflushing session the query first INSERTs the added
\* rows: one that breaks uix_csi_icc raises IntegrityError, the
\* transaction is rolled back and the session is left inactive.
loop_body(csi_code_id, match, relevance_map, pending, active) ==
    IF ~(MatchKeys \subseteq DOMAIN match)
    THEN [pending |-> pending, active |-> active, raised |-> "KeyError"]
    ELSE IF ~active
    THEN [pending |-> pending, active |-> FALSE, raised |-> "PendingRollbackError"]
    ELSE IF autoflush /\ ~uix_csi_icc(mappings \o pending)
    THEN [pending |-> <<>>, active |-> FALSE, raised |-> "IntegrityError"]
    ELSE
        LET relevance == relevance_get(relevance_map, match.confidence)
            seen == visible_rows(pending)
            existing ==
                \E i \in DOMAIN seen :
                    /\ seen[i].csi_code_id = csi_code_id
                    /\ seen[i].icc_section_id = match.section
            mapping == [csi_code_id |-> csi_code_id,
                        icc_section_id |-> match.section,
                        relevance |-> relevance,
                        notes |-> [auto |-> TRUE, score |-> match.score]]
        IN  [pending |-> IF existing THEN pending ELSE Append(pending, mapping),
             active |-> TRUE,
             raised |-> NULL]

\* create_keyword_mappings(db, csi_code, matches, relevance_map) is called
\* by caller p (lines 201-230).  `again`: the call repeats the call that
\* ended last, whose outcome is `first` (undisturbed: no other request
\* committed a mapping while that call ran; usable: the session was
\* active when that call was made)
create_keyword_mappings(p, csi_code, ms, relevance_map) ==
    /\ pc[p] \in {"Idle", "Returned"}
    /\ LET again == /\ last.op = "create_keyword_mappings"
                    /\ last.caller = p
                    /\ last.csi_code_id = csi_code.id
                    /\ last.matches = ms
                    /\ last.relevance_map = relevance_map
       IN  /\ req' = [req EXCEPT ![p] =
                        [csi_code_id |-> csi_code.id,
                         matches |-> ms,
                         relevance_map |-> relevance_map]]
           /\ result' = [result EXCEPT ![p] =
                            [next |-> 1,
                             added |-> <<>>,
                             before |-> mappings,
                             usable |-> session_active[p],
                             again |-> again,
                             first |-> IF again
                                       THEN [ret |-> last.ret,
                                             raised |-> last.raised,
                                             undisturbed |-> last.before = last.stored,
                                             usable |-> last.usable]
                                       ELSE [ret |-> -1, raised |-> NULL,
                                             undisturbed |-> TRUE,
                                             usable |-> TRUE]]]
    /\ pc' = [pc EXCEPT ![p] = "Loop"]
    /\ response' = [response EXCEPT ![p] = None]
    /\ UNCHANGED << csi_codes, icc_documents, icc_sections, mappings, autoflush,
                    session_new, session_active, process, matcher, calls, matches, last >>

\* what the caller p observes when its call ends: the count returned (-1
\* when the call raises instead), the exception, the rows the call added,
\* the table as it was when the call was made (before) and when its last
\* statement ran (stored), whether the session was active when the call
\* was made (usable)
synth_return(p, ret, raised, added) ==
    /\ pc' = [pc EXCEPT ![p] = "Returned"]
    /\ response' = [response EXCEPT ![p] = [ret |-> ret, raised |-> raised]]
    /\ last' = [op |-> "create_keyword_mappings",
                caller |-> p,
                csi_code_id |-> req[p].csi_code_id,
                matches |-> req[p].matches,
                relevance_map |-> req[p].relevance_map,
                ret |-> ret,
                raised |-> raised,
                added |-> added,
                before |-> result[p].before,
                stored |-> mappings,
                usable |-> result[p].usable,
                again |-> result[p].again,
                first |-> result[p].first]

\* one pass of the loop body (lines 232-260) of caller p
synth_match(p) ==
    /\ pc[p] = "Loop"
    /\ result[p].next <= Len(req[p].matches)
    /\ LET map == IF req[p].relevance_map = None
                  THEN DefaultRelevanceMap ELSE req[p].relevance_map
           pass == loop_body(req[p].csi_code_id, req[p].matches[result[p].next],
                             map, session_new[p], session_active[p])
           added == IF Len(pass.pending) > Len(session_new[p])
                    THEN Append(result[p].added, pass.pending[Len(pass.pending)])
                    ELSE result[p].added
       IN  /\ Len(pass.pending) <= MaxMatches
           /\ session_new' = [session_new EXCEPT ![p] = pass.pending]
           /\ session_active' = [session_active EXCEPT ![p] = pass.active]
           /\ IF pass.raised # NULL
              THEN /\ synth_return(p, -1, pass.raised, added)
                   /\ UNCHANGED result
              ELSE /\ result' = [result EXCEPT ![p] =
                                    [@ EXCEPT !.next = @ + 1, !.added = added]]
                   /\ UNCHANGED << pc, response, last >>
    /\ UNCHANGED << csi_codes, icc_documents, icc_sections, mappings, autoflush,
                    process, req, matcher, calls, matches >>

\* seeded defect: at the commit, a match whose pair has a mapping rewrites
\* that mapping's relevance
synth_commit_updates(p) ==
    /\ pc[p] = "Loop"
    /\ result[p].next > Len(req[p].matches)
    /\ LET created == Len(result[p].added)
           done == commit(session_new[p])
           map == IF req[p].relevance_map = None
                  THEN DefaultRelevanceMap ELSE req[p].relevance_map
           Hit(i) == {k \in DOMAIN req[p].matches :
                        /\ mappings[i].csi_code_id = req[p].csi_code_id
                        /\ mappings[i].icc_section_id = req[p].matches[k].section}
           updated == [i \in DOMAIN mappings |->
                        IF Hit(i) = {} THEN mappings[i]
                        ELSE [mappings[i] EXCEPT !.relevance =
                                relevance_get(map,
                                    req[p].matches[CHOOSE k \in Hit(i) : TRUE]
                                        .confidence)]]
       IN  /\ done.raised = NULL => Len(done.table) <= MaxMappings
           /\ mappings' = IF done.raised = NULL
                          THEN updated \o session_new[p] ELSE updated
           /\ session_new' = [session_new EXCEPT ![p] = <<>>]
           /\ session_active' = [session_active EXCEPT ![p] = done.raised = NULL]
           /\ synth_return(p, IF done.raised = NULL THEN created ELSE -1,
                           done.raised, result[p].added)
    /\ UNCHANGED << csi_codes, icc_documents, icc_sections, autoflush, process,
                    req, result, matcher, calls, matches >>

\* lines 262-265 of caller p: db.commit() when created > 0, which flushes
\* every row added on the session (a commit that fails rolls them all
\* back and leaves the session inactive), and return created
synth_commit(p) ==
    /\ pc[p] = "Loop"
    /\ result[p].next > Len(req[p].matches)
    /\ LET created == Len(result[p].added)
           done == commit(session_new[p])
       IN  IF created > 0
           THEN /\ done.raised = NULL => Len(done.table) <= MaxMappings
                /\ mappings' = done.table
                /\ session_new' = [session_new EXCEPT ![p] = <<>>]
                /\ session_active' = [session_active EXCEPT ![p] = done.raised = NULL]
                /\ synth_return(p, IF done.raised = NULL THEN created ELSE -1,
                                done.raised, result[p].added)
           ELSE /\ synth_return(p, 0, NULL, result[p].added)
                /\ UNCHANGED << mappings, session_new, session_active >>
    /\ UNCHANGED << csi_codes, icc_documents, icc_sections, autoflush, process,
                    req, result, matcher, calls, matches >>

\* db.close() (or db.rollback()) by caller p between two calls: the rows
\* added on its session and not committed are gone, and the session can
\* be used again
close_session(p) ==
    /\ pc[p] \in {"Idle", "Returned"}
    /\ session_new[p] # <<>> \/ ~session_active[p]
    /\ session_new' = [session_new EXCEPT ![p] = <<>>]
    /\ session_active' = [session_active EXCEPT ![p] = TRUE]
    /\ last' = [op |-> "close_session"]
    /\ UNCHANGED << csi_codes, icc_documents, icc_sections, mappings, autoflush,
                    process, pc, req, result, matcher, calls, response, matches >>

\* ------------------------------------- direct use of a KeywordMatcher
\* (scripts/test_keyword_matching.py: one matcher, initialized, then asked
\* for the matches of several codes)

\* matcher = KeywordMatcher()
new_matcher ==
    /\ pc = "CuratedLookup"
    /\ matcher = None
    /\ matcher' = KeywordMatcher
    /\ last' = NoCall
    /\ UNCHANGED << csi_codes, icc_documents, icc_sections, mappings, autoflush,
                    session_new, session_active, process, pc, req, result,
                    calls, response, matches >>

\* matcher.initialize(db, icc_document_code)
initialize_call(icc_document_code, fault) ==
    /\ pc = "CuratedLookup"
    /\ matcher # None
    /\ \E scan \in ScanOrders(Len(icc_sections)) :
       LET out == initialize(matcher, icc_document_code, fault, scan)
       IN  /\ matcher' = out.matcher
           /\ last' = [op |-> "initialize",
                       icc_document_code |-> icc_document_code,
                       fault |-> fault,
                       raised |-> out.raised,
                       \* some initialize call on this matcher has returned
                       completed |-> \/ out.raised = NULL
                                     \/ (last.op = "initialize" /\ last.completed)]
    /\ matches' = None
    /\ UNCHANGED << csi_codes, icc_documents, icc_sections, mappings, autoflush,
                    session_new, session_active, process, pc, req, result,
                    calls, response >>

\* seeded defect: find_matches re-fits the vectorizer on the query text, so
\* the corpus vectors no longer score against later queries
find_matches_call_refit(csi_code, top_n, min_score) ==
    /\ pc = "CuratedLookup"
    /\ matcher # None
    /\ matches' = matches_record(find_matches(matcher, csi_code, top_n,
                                              min_score, "none"),
                                 csi_code, top_n, min_score)
    /\ matcher' = [matcher EXCEPT
                        !.icc_vectors =
                            [i \in DOMAIN @ |-> [c \in CsiCodeIds |-> 0]]]
    /\ UNCHANGED << csi_codes, icc_documents, icc_sections, mappings, autoflush,
                    session_new, session_active, process, pc, req, result,
                    calls, response, last >>

\* matcher.find_matches(csi_code, top_n, min_score)
find_matches_call(csi_code, top_n, min_score) ==
    /\ pc = "CuratedLookup"
    /\ matcher # None
    /\ matches' = matches_record(find_matches(matcher, csi_code, top_n,
                                              min_score, "none"),
                                 csi_code, top_n, min_score)
    /\ UNCHANGED << csi_codes, icc_documents, icc_sections, mappings, autoflush,
                    session_new, session_active, process, pc, req, result,
                    matcher, calls, response, last >>

\* ------------------------------------------------------- search_codes
\* seeded defect: the try block also encloses the curated lookup
TryBlock_with_lookup ==
    {"search_csi_to_icc", "initialize", "find_matches", "assemble"}

\* the stages of search_codes that run inside its try block (codes.py
\* 191-223): `except Exception` turns whatever they raise into a
\* "no_mappings" result; anything raised elsewhere leaves the handler
TryBlock == {"initialize", "find_matches", "assemble"}

\* what the caller gets when `stage` raises while the dict `result` is res:
\* inside the try, the dict itself with result["source"] = "no_mappings"
\* (codes.py 223-226, 232)
raised_response(stage, res) ==
    IF stage \in TryBlock
    THEN [status |-> 200,
          body |-> [csi_code |-> res.csi_code,
                    icc_sections |-> res.icc_sections,
                    total_results |-> res.total_results,
                    source |-> "no_mappings"]]
    ELSE [status |-> 500]

\* POST /search, first stage (codes.py 168-181, 229-232): the curated
\* lookup, which returns one of the results search_csi_to_icc may return.
\* storage_fault: the storage read raises.
curated_lookup(r, storage_fault) ==
    /\ pc = "CuratedLookup"
    /\ req' = r
    /\ matcher' = None
    /\ matches' = None
    /\ last' = NoCall
    /\ \E found \in search_csi_to_icc(r.csi_code, r.state, r.year, r.icc_document) :
       LET unbound == [csi_code |-> None, icc_sections |-> <<>>, total_results |-> 0]
       IN  IF storage_fault
           THEN /\ calls' = << "search_csi_to_icc:raise" >>
                /\ result' = None
                /\ response' = raised_response("search_csi_to_icc", unbound)
                /\ pc' = "Done"
           ELSE IF found = None
           THEN /\ calls' = << "search_csi_to_icc" >>
                /\ result' = None
                /\ response' = [status |-> 404, detail |-> "CSI code not found"]
                /\ pc' = "Done"
           ELSE IF Len(found.icc_sections) = 0
           THEN /\ calls' = << "search_csi_to_icc" >>
                /\ result' = found
                /\ response' = None
                /\ pc' = "FallbackMatch"
           ELSE /\ calls' = << "search_csi_to_icc" >>
                /\ result' = [csi_code |-> found.csi_code,
                              icc_sections |-> found.icc_sections,
                              total_results |-> found.total_results,
                              source |-> "manual_mappings"]
                /\ response' = [status |-> 200, body |-> result']
                /\ pc' = "Done"
    /\ UNCHANGED << csi_codes, icc_documents, icc_sections, mappings, autoflush,
                    session_new, session_active, process >>

\* schemas.ICCSectionWithDocument: what a SearchResult carries for the
\* section s of its icc_sections list (of the columns, those of the model's
\* rows), the section's document included
ICCSectionWithDocument(s) ==
    [id |-> s,
     document_id |-> icc_sections[s].document_id,
     document |-> icc_documents[icc_sections[s].document_id]]

\* the faults a fallback can meet: none; the CSICode query of line 186
\* raises ("query", before the try); inside the try, query.all() ("load"),
\* fit_transform ("fit"), find_matches ("find") or the document load of the
\* assembling loop ("assemble") raises
Faults == {"none", "query", "load", "fit", "find", "assemble"}

\* codes.py 181-228: the keyword-matching branch of search_codes, from the
\* CSICode query to the source tag, initialize's query listing its rows in
\* the order of `scan`
fallback_stage(fault, scan) ==
    LET csi_code_obj == get_csi_code(req.csi_code)
        init == initialize(KeywordMatcher, req.icc_document, fault, scan)
        found == find_matches(init.matcher, csi_code_obj,
                              SearchTopN, SearchMinScore, fault)
        suggested_sections ==
            [k \in DOMAIN found.results |-> found.results[k].section]
        Returns(resp) ==
            /\ response' = resp
            /\ result' = IF resp.status = 200 THEN resp.body ELSE result
    IN  IF fault = "query"
        THEN /\ calls' = calls \o << "query_csi_code:raise" >>
             /\ matcher' = None
             /\ matches' = None
             /\ Returns(raised_response("query_csi_code", result))
        ELSE IF csi_code_obj = None
        THEN /\ calls' = calls \o << "query_csi_code" >>
             /\ matcher' = None
             /\ matches' = None
             /\ Returns([status |-> 200,
                         body |-> [csi_code |-> result.csi_code,
                                   icc_sections |-> result.icc_sections,
                                   total_results |-> result.total_results,
                                   source |-> "no_mappings"]])
        ELSE IF init.raised # NULL
        THEN /\ calls' = calls \o << "query_csi_code", "KeywordMatcher",
                                     "initialize:raise" >>
             /\ matcher' = init.matcher
             /\ matches' = None
             /\ Returns(raised_response("initialize", result))
        ELSE IF found.raised # NULL
        THEN /\ calls' = calls \o << "query_csi_code", "KeywordMatcher",
                                     "initialize", "find_matches:raise" >>
             /\ matcher' = init.matcher
             /\ matches' = matches_record(found, csi_code_obj,
                                          SearchTopN, SearchMinScore)
             /\ Returns(raised_response("find_matches", result))
        ELSE IF fault = "assemble" /\ found.results # <<>>
        THEN /\ calls' = calls \o << "query_csi_code", "KeywordMatcher",
                                     "initialize", "find_matches",
                                     "assemble:raise" >>
             /\ matcher' = init.matcher
             /\ matches' = matches_record(found, csi_code_obj,
                                          SearchTopN, SearchMinScore)
             /\ Returns(raised_response("assemble", result))
        ELSE /\ calls' = calls \o << "query_csi_code", "KeywordMatcher",
                                     "initialize", "find_matches", "assemble" >>
             /\ matcher' = init.matcher
             /\ matches' = matches_record(found, csi_code_obj,
                                          SearchTopN, SearchMinScore)
             /\ Returns([status |-> 200,
                         body |-> [csi_code |-> result.csi_code,
                                   icc_sections |-> suggested_sections,
                                   total_results |-> Len(suggested_sections),
                                   source |-> "keyword_matching"]])

\* seeded defect: the suggestions are stored as mappings by the search
fallback_match_persists(fault) ==
    /\ pc = "FallbackMatch"
    /\ \E scan \in ScanOrders(Len(icc_sections)) : fallback_stage(fault, scan)
    /\ pc' = "Done"
    /\ mappings' = mappings \o
            [k \in DOMAIN result'.icc_sections |->
                [csi_code_id |-> req.csi_code,
                 icc_section_id |-> result'.icc_sections[k],
                 relevance |-> "reference",
                 notes |-> [auto |-> TRUE, score |-> 0]]]
    /\ last' = NoCall
    /\ UNCHANGED << csi_codes, icc_documents, icc_sections, autoflush, session_new, session_active,
                    process, req >>

\* POST /search, second stage: the fallback runs and the handler returns
fallback_match(fault) ==
    /\ pc = "FallbackMatch"
    /\ \E scan \in ScanOrders(Len(icc_sections)) : fallback_stage(fault, scan)
    /\ pc' = "Done"
    /\ last' = NoCall
    /\ UNCHANGED << csi_codes, icc_documents, icc_sections, mappings, autoflush,
                    session_new, session_active, process, req >>

\* search_codes has returned (or raised): its locals are gone and the
\* next request may be served
search_done ==
    /\ pc = "Done"
    /\ ResetSearch
    /\ last' = NoCall
    /\ UNCHANGED << csi_codes, icc_documents, icc_sections, mappings, autoflush,
                    session_new, session_active, process >>

\* ------------------------------------------------------- specification
\* the code string the requests of the API's runs name
ApiCodes == {1}

\* the search requests: a code that the table holds or will hold, and at
\* most one of the three filters
SearchRequests ==
    {r \in [csi_code : ApiCodes, state : StateFilters,
            year : YearFilters, icc_document : DocumentFilters] :
        Cardinality({f \in {"state", "year", "icc_document"} :
                        r[f] # NoRequest[f]}) <= 1}

\* the section texts of the orchestrator's runs: below min_score for
\* every code, or above it for code 1 only
SearchSims ==
    {[c \in CsiCodeIds |-> 50],
     [c \in CsiCodeIds |-> IF c = 1 THEN 420 ELSE 50]}

\* the process of the runs that neither rank sections nor iterate a set
NoProcess ==
    [ties |-> [head |-> <<>>, tail_reversed |-> FALSE], hash_seed |-> 0]

\* the empty tables of a new database, and a server process
Init ==
    /\ csi_codes = {}
    /\ icc_documents = <<>>
    /\ icc_sections = <<>>
    /\ mappings = <<>>
    /\ autoflush = FALSE
    /\ session_new = <<>>
    /\ session_active = TRUE
    /\ process \in Processes(MaxSections, FALSE)
    /\ pc = "CuratedLookup"
    /\ req = NoRequest
    /\ result = None
    /\ matcher = None
    /\ calls = <<>>
    /\ response = None
    /\ matches = None
    /\ last = NoCall

\* the storage of the synthesizer's runs: one section per document
SynthSections ==
    << [document_id |-> 1, sim |-> [c \in CsiCodeIds |-> 420]],
       [document_id |-> 2, sim |-> [c \in CsiCodeIds |-> 50]] >>

\* the match dicts handed to create_keyword_mappings: a stored section, a
\* score and the confidence find_matches derives from it
SynthScores == {100, 420}

MatchDicts ==
    {[section |-> s, score |-> v, confidence |-> _score_to_confidence(v),
      matched_keywords |-> <<>>] :
        s \in DOMAIN SynthSections, v \in SynthScores}

\* a match dict that lacks 'matched_keywords' (not one find_matches built)
MalformedDicts ==
    {[section |-> 2, score |-> 420, confidence |-> _score_to_confidence(420)]}

RECURSIVE SeqsUpTo(_, _)
SeqsUpTo(S, n) ==
    IF n = 0 THEN {<<>>}
    ELSE SeqsUpTo(S, n - 1) \cup
         {Append(q, x) : q \in {t \in SeqsUpTo(S, n - 1) : Len(t) = n - 1}, x \in S}

\* the match lists of the synthesizer's runs: dicts of one score, a
\* section named once, twice, or not at all
MatchLists == SeqsUpTo({d \in MatchDicts : d.score = 420}, MaxMatches)

\* a caller-supplied relevance_map that lacks some confidences
PartialRelevanceMap == [high |-> "secondary"]

\* the callers of create_keyword_mappings
Invocations == {1, 2}

\* the caller of the runs with one caller
SoleCaller == {1}

\* a populated database, a session of either kind per caller, no call made
SynthInit ==
    /\ csi_codes = CsiCodeIds
    /\ icc_documents = SeededDocuments
    /\ icc_sections = SynthSections
    /\ mappings = <<>>
    /\ autoflush \in BOOLEAN
    /\ session_new = [p \in Invocations |-> <<>>]
    /\ session_active = [p \in Invocations |-> TRUE]
    /\ process = NoProcess
    /\ pc = [p \in Invocations |-> "Idle"]
    /\ req = [p \in Invocations |-> None]
    /\ result = [p \in Invocations |-> None]
    /\ matcher = None
    /\ calls = <<>>
    /\ response = [p \in Invocations |-> None]
    /\ matches = None
    /\ last = NoCall

\* one caller of the synthesizer, who may close its session between two
\* calls, and POST /mappings requests that may be committed between any
\* two of its statements
SynthNext ==
    \/ \E c \in CsiCodeIds, s \in DOMAIN SynthSections :
            create_mapping_meanwhile(c, s, "primary")
    \/ \E p \in SoleCaller, c \in CsiCodeIds, ms \in MatchLists :
            create_keyword_mappings(p, [id |-> c], ms, None)
    \/ \E p \in SoleCaller : synth_match(p)
    \/ \E p \in SoleCaller : synth_commit(p)
    \/ \E p \in SoleCaller : close_session(p)

SynthSpec == SynthInit /\ [][SynthNext]_vars

\* the state of the runs of one pure function: empty tables, no request
PureInit ==
    /\ csi_codes = {}
    /\ icc_documents = <<>>
    /\ icc_sections = <<>>
    /\ mappings = <<>>
    /\ autoflush = FALSE
    /\ session_new = <<>>
    /\ session_active = TRUE
    /\ process = NoProcess
    /\ pc = "CuratedLookup"
    /\ req = NoRequest
    /\ result = None
    /\ matcher = None
    /\ calls = <<>>
    /\ response = None
    /\ matches = None
    /\ last = NoCall

\* self._score_to_confidence(score), as find_matches calls it for a score
classify(score) ==
    /\ last' = [op |-> "_score_to_confidence",
                score |-> score,
                confidence |-> _score_to_confidence(score)]
    /\ UNCHANGED << csi_codes, icc_documents, icc_sections, mappings, autoflush,
                    session_new, session_active, process, pc, req,
                    result, matcher, calls, response, matches >>

\* the classifier's runs: every score from 0 to 1 in steps of 0.001
ClassifierNext == \E score \in 0..ScoreOne : classify(score)

ClassifierSpec == PureInit /\ [][ClassifierNext]_vars

\* self._create_searchable_text(section), as initialize calls it for a
\* section
create_searchable_text(section) ==
    /\ last' = [op |-> "_create_searchable_text",
                section |-> section,
                text |-> _create_searchable_text(section)]
    /\ UNCHANGED << csi_codes, icc_documents, icc_sections, mappings, autoflush,
                    session_new, session_active, process, pc, req,
                    result, matcher, calls, response, matches >>

\* the sections whose text is built: every field absent, or one of a few
\* values (chapter 0 is a chapter that is set)
TextSections ==
    [section_number : {<<>>, <<"501.1">>, <<"P2801">>},
     title : {<<>>, <<"Water", " ", "Heaters">>, <<"Scope">>},
     chapter : {<<>>, <<0>>, <<5>>, <<12>>},
     description : {<<>>, <<"General">>,
                    <<"Requirements", " ", "for", " ", "water", " ", "heater",
                      " ", "installation">>}]

TextNext == \E section \in TextSections : create_searchable_text(section)

TextSpec == PureInit /\ [][TextNext]_vars

\* the runs of a caller that keeps one session over several synthesizer
\* calls for one code, some with a match list that holds a malformed dict,
\* and may close the session in between
SessionDicts ==
    {d \in MatchDicts : (d.section = 1 /\ d.score = 420)
                            \/ (d.section = 2 /\ d.score = 100)}
        \cup MalformedDicts

SessionNext ==
    \/ \E p \in SoleCaller, ms \in SeqsUpTo(SessionDicts, MaxMatches) :
            create_keyword_mappings(p, [id |-> 1], ms, None)
    \/ \E p \in SoleCaller : synth_match(p)
    \/ \E p \in SoleCaller : synth_commit(p)
    \/ \E s \in DOMAIN SynthSections : create_mapping_meanwhile(1, s, "primary")
    \/ \E p \in SoleCaller : close_session(p)

SessionSpec == SynthInit /\ [][SessionNext]_vars

\* the section tables of the matcher's runs: rows whose similarity is the
\* same for every code (any score in the first document, the high score in
\* the others), in every table of up to MaxSections rows, the
\* tables of MaxSections + 1 rows of the first document that score below
\* or above both min_score values, and tables longer than search's top_n
RankRows ==
    {row \in [document_id : DOMAIN SeededDocuments,
              sim : {[c \in CsiCodeIds |-> v] : v \in ScoreValues}] :
        row.document_id # 1 => row.sim[1] = 420}

LongTable(n, k) ==
    [i \in 1..n |->
        [document_id |-> 1,
         sim |-> [c \in CsiCodeIds |->
                    IF i % k = 0 THEN 50 ELSE IF i % 2 = 0 THEN 100 ELSE 420]]]

LongTables ==
    {LongTable(n, k) : n \in {SearchTopN + 1, SearchTopN + 2},
                       k \in {3, SearchTopN + 3}}

\* the min_score values a direct caller passes
MinScores == {100, 420}

\* the search requests of the matcher's runs: a stored code, no state and
\* no year filter, and either no document filter or "IPC"
MatcherRequests ==
    {[csi_code |-> c, state |-> NULL, year |-> NoYear, icc_document |-> code] :
        c \in CsiCodeIds, code \in DocumentFilters}

\* a populated database and a process whose tie order covers the rows of
\* the short tables, and either order of the rows of the long ones
MatcherInit ==
    /\ csi_codes = CsiCodeIds
    /\ icc_documents = SeededDocuments
    /\ icc_sections \in SeqsUpTo(RankRows, MaxSections)
                        \cup SeqsUpTo({row \in RankRows : /\ row.document_id = 1
                                                         /\ row.sim[1] # 100},
                                      MaxSections + 1)
                        \cup LongTables
    /\ mappings = <<>>
    /\ autoflush = FALSE
    /\ session_new = <<>>
    /\ session_active = TRUE
    /\ process \in IF icc_sections \in LongTables
                    THEN Processes(0, TRUE)
                    ELSE Processes(Len(icc_sections), FALSE)
    /\ pc = "CuratedLookup"
    /\ req = NoRequest
    /\ result = None
    /\ matcher = None
    /\ calls = <<>>
    /\ response = None
    /\ matches = None
    /\ last = NoCall

MatcherNext ==
    \/ new_matcher
    \/ \E code \in DocumentFilters, f \in {"none", "load", "fit"} :
            initialize_call(code, f)
    \/ \E c \in CsiCodeIds, n \in 0..MaxTopN, m \in MinScores :
            find_matches_call([id |-> c], n, m)
    \/ \E r \in MatcherRequests : curated_lookup(r, FALSE)
    \/ fallback_match("none")
    \/ search_done

MatcherSpec == MatcherInit /\ [][MatcherNext]_vars

\* the runs of callers that hand create_keyword_mappings matches of every
\* confidence, with the default relevance_map or one of their own, and
\* may close the session between two calls
TierScores == {100, 200, 420, 700}

\* match dicts as find_matches builds them: section 2 with the medium
\* score, section 1 with a score of each other confidence
TierDicts ==
    {d \in [section : DOMAIN SynthSections, score : TierScores,
            confidence : {_score_to_confidence(v) : v \in TierScores},
            matched_keywords : {<<>>}] :
        /\ d.confidence = _score_to_confidence(d.score)
        /\ d.section = 2 <=> d.score = 420}

RelevanceNext ==
    \/ \E p \in SoleCaller, ms \in SeqsUpTo(TierDicts, MaxMatches),
          rm \in {None, PartialRelevanceMap} :
            create_keyword_mappings(p, [id |-> 1], ms, rm)
    \/ \E p \in SoleCaller : synth_match(p)
    \/ \E p \in SoleCaller : synth_commit(p)
    \/ \E p \in SoleCaller : close_session(p)

RelevanceSpec == SynthInit /\ [][RelevanceNext]_vars

\* ------------------------------------------- concurrent search_codes
\* (search_codes is a plain `def` handler: the server runs each request on
\* its own thread, so the statements of two requests interleave.  In the
\* runs below pc, req, result, matcher, response and matches hold one
\* value per invocation.)

\* seeded defect: one module-level matcher serves every invocation
module_matcher(p) == 1

\* `matcher = KeywordMatcher()` (codes.py 193): the matcher is a local of
\* the invocation that created it
local_matcher(p) == p

\* codes.py 168-181, 229-232 for invocation p: the curated lookup
search_curated(p) ==
    /\ pc[p] = "CuratedLookup"
    /\ \E found \in search_csi_to_icc(req[p].csi_code, req[p].state,
                                       req[p].year, req[p].icc_document) :
           IF found = None
           THEN /\ result' = [result EXCEPT ![p] = None]
                /\ response' = [response EXCEPT ![p] =
                                    [status |-> 404, detail |-> "CSI code not found"]]
                /\ pc' = [pc EXCEPT ![p] = "Done"]
           ELSE IF Len(found.icc_sections) = 0
           THEN /\ result' = [result EXCEPT ![p] = found]
                /\ pc' = [pc EXCEPT ![p] = "FallbackMatch"]
                /\ UNCHANGED response
           ELSE /\ result' = [result EXCEPT ![p] =
                                [csi_code |-> found.csi_code,
                                 icc_sections |-> found.icc_sections,
                                 total_results |-> found.total_results,
                                 source |-> "manual_mappings"]]
                /\ response' = [response EXCEPT ![p] =
                                    [status |-> 200, body |-> result'[p]]]
                /\ pc' = [pc EXCEPT ![p] = "Done"]
    /\ calls' = Append(calls, << p, "search_csi_to_icc" >>)
    /\ UNCHANGED << csi_codes, icc_documents, icc_sections, mappings, autoflush,
                    session_new, session_active, process, req,
                    matcher, matches, last >>

\* codes.py 186-198, 223-232 for invocation p: the CSICode query, KeywordMatcher()
\* and matcher.initialize
search_initialize(p) ==
    /\ pc[p] = "FallbackMatch"
    /\ \E scan \in ScanOrders(Len(icc_sections)) :
       LET init == initialize(KeywordMatcher, req[p].icc_document, "none", scan)
           out == raised_response("initialize", result[p])
       IN  /\ matcher' = [matcher EXCEPT ![local_matcher(p)] = init.matcher]
           /\ IF init.raised # NULL
              THEN /\ result' = [result EXCEPT ![p] =
                                    IF out.status = 200 THEN out.body ELSE @]
                   /\ response' = [response EXCEPT ![p] = out]
                   /\ pc' = [pc EXCEPT ![p] = "Done"]
              ELSE /\ pc' = [pc EXCEPT ![p] = "FindMatches"]
                   /\ UNCHANGED << result, response >>
    /\ calls' = Append(calls, << p, "initialize" >>)
    /\ UNCHANGED << csi_codes, icc_documents, icc_sections, mappings, autoflush,
                    session_new, session_active, process, req,
                    matches, last >>

\* codes.py 200-232 for invocation p: matcher.find_matches and the
\* assembling of the result
search_find_matches(p) ==
    /\ pc[p] = "FindMatches"
    /\ LET found == find_matches(matcher[local_matcher(p)],
                                 get_csi_code(req[p].csi_code),
                                 SearchTopN, SearchMinScore, "none")
           suggested_sections ==
                [k \in DOMAIN found.results |-> found.results[k].section]
           out == raised_response("find_matches", result[p])
       IN  /\ matches' = [matches EXCEPT ![p] =
                            matches_record(found, get_csi_code(req[p].csi_code),
                                           SearchTopN, SearchMinScore)]
           /\ IF found.raised # NULL
              THEN /\ result' = [result EXCEPT ![p] =
                                    IF out.status = 200 THEN out.body ELSE @]
                   /\ response' = [response EXCEPT ![p] = out]
              ELSE /\ result' = [result EXCEPT ![p] =
                                    [csi_code |-> result[p].csi_code,
                                     icc_sections |-> suggested_sections,
                                     total_results |-> Len(suggested_sections),
                                     source |-> "keyword_matching"]]
                   /\ response' = [response EXCEPT ![p] =
                                    [status |-> 200, body |-> result'[p]]]
    /\ pc' = [pc EXCEPT ![p] = "Done"]
    /\ calls' = Append(calls, << p, "find_matches" >>)
    /\ UNCHANGED << csi_codes, icc_documents, icc_sections, mappings, autoflush,
                    session_new, session_active, process, req,
                    matcher, last >>

\* the requests of the concurrent runs: a code and a document family
ConcurrentRequests ==
    [csi_code : RequestCodes, state : {NULL}, year : {NoYear},
     icc_document : DocumentFilters]

\* the storage of the concurrent runs: up to MaxSections sections, with no
\* mapping or with one curated mapping of code 2
ConcurrentInit ==
    /\ csi_codes = CsiCodeIds
    /\ icc_documents = SeededDocuments
    /\ icc_sections \in
            SeqsUpTo({[document_id |-> d, sim |-> v] :
                            d \in DOMAIN SeededDocuments, v \in SearchSims},
                     MaxSections)
    /\ mappings \in
            {<<>>} \cup
            {<< [csi_code_id |-> 2, icc_section_id |-> 1,
                 relevance |-> "primary",
                 notes |-> [auto |-> FALSE, score |-> 0]] >> :
                x \in {1} \cap DOMAIN icc_sections}
    /\ autoflush = FALSE
    /\ session_new = <<>>
    /\ session_active = TRUE
    /\ process \in Processes(MaxSections, FALSE)
    /\ pc = [p \in Invocations |-> "CuratedLookup"]
    /\ req \in [Invocations -> ConcurrentRequests]
    /\ result = [p \in Invocations |-> None]
    /\ matcher = [p \in Invocations |-> None]
    /\ calls = <<>>
    /\ response = [p \in Invocations |-> None]
    /\ matches = [p \in Invocations |-> None]
    /\ last = NoCall

ConcurrentNext ==
    \E p \in Invocations :
        \/ search_curated(p)
        \/ search_initialize(p)
        \/ search_find_matches(p)

ConcurrentSpec == ConcurrentInit /\ [][ConcurrentNext]_vars

\* ------------------------------------- _find_matched_keywords runs
\* self._find_matched_keywords(query_text, text), as find_matches calls it
find_matched_keywords(query, text) ==
    /\ \E order \in iteration_orders(matched_words(query, text)) :
            last' = [op |-> "_find_matched_keywords",
                     query |-> query,
                     text |-> text,
                     order |-> order,
                     keywords |-> _find_matched_keywords(query, text, order)]
    /\ UNCHANGED << csi_codes, icc_documents, icc_sections, mappings, autoflush,
                    session_new, session_active, process, pc, req,
                    result, matcher, calls, response, matches >>

\* query texts as _create_csi_query builds them, and section texts
ExplainerQueries ==
    { <<>>,
      << "Water", " ", "Heaters", " ", "AND", " ", "gas", " ", "pipe", " ",
         "drain", " ", "vent", " ", "valve" >>,
      << "The", " ", "pipe", " ", "for", " ", "gas" >> }

ExplainerTexts ==
    { <<>>,
      << "water", " ", "heaters", " ", "and", " ", "VALVE", " ", "pipe", " ",
         "drain", " ", "vent" >>,
      << "the", " ", "Pipe", " ", " ", "vent", " ", "for", " ", "drains" >>,
      << "valve", " ", "gas" >> }

ExplainerNext ==
    \E query \in ExplainerQueries, text \in ExplainerTexts :
        find_matched_keywords(query, text)

ExplainerSpec == PureInit /\ [][ExplainerNext]_vars

\* ----------------------------------- concurrent create_keyword_mappings
\* (two callers, each with a session of its own, call
\* create_keyword_mappings for code 1 at the same time)

\* the match lists of the concurrent callers: results of find_matches,
\* which name each section at most once
DistinctMatchLists ==
    {ms \in SeqsUpTo({d \in MatchDicts : d.score = 420}, MaxMatches) :
        \A i, j \in DOMAIN ms : ms[i].section = ms[j].section => i = j}

\* the arguments of the concurrent calls
ConcurrentCalls ==
    [csi_code_id : {1}, matches : DistinctMatchLists, relevance_map : {None}]

\* both calls have been made and neither has run its first statement
ConcurrentSynthInit ==
    /\ csi_codes = CsiCodeIds
    /\ icc_documents = SeededDocuments
    /\ icc_sections = SynthSections
    /\ mappings \in
            {<<>>,
             << [csi_code_id |-> 1, icc_section_id |-> 1,
                 relevance |-> "primary",
                 notes |-> [auto |-> FALSE, score |-> 0]] >>}
    /\ autoflush = FALSE
    /\ session_new = [p \in Invocations |-> <<>>]
    /\ session_active = [p \in Invocations |-> TRUE]
    /\ process = NoProcess
    /\ pc = [p \in Invocations |-> "Loop"]
    /\ req \in [Invocations -> ConcurrentCalls]
    /\ result = [p \in Invocations |->
                    [next |-> 1, added |-> <<>>, before |-> mappings,
                     again |-> FALSE,
                     usable |-> TRUE,
                     first |-> [ret |-> -1, raised |-> NULL,
                               undisturbed |-> TRUE, usable |-> TRUE]]]
    /\ matcher = None
    /\ calls = <<>>
    /\ response = [p \in Invocations |-> None]
    /\ matches = None
    /\ last = NoCall

ConcurrentSynthNext ==
    \E p \in Invocations :
        \/ synth_match(p)
        \/ synth_commit(p)

ConcurrentSynthSpec == ConcurrentSynthInit /\ [][ConcurrentSynthNext]_vars

\* the requests of the API: the writers, and searches served one after the
\* other, the writers landing between any two stages of a search
Next ==
    \/ \E c \in ApiCodes, stale \in BOOLEAN : create_csi_code(c, stale)
    \/ \E document \in DocumentRows : create_icc_document(document)
    \/ \E d \in DocumentIds, sim \in SearchSims : create_icc_section(d, sim)
    \/ \E c \in ApiCodes, s \in 1..MaxSections : create_mapping(c, s, "primary")
    \/ \E r \in SearchRequests, f \in BOOLEAN : curated_lookup(r, f)
    \/ \E f \in Faults : fallback_match(f)
    \/ search_done

Spec == Init /\ [][Next]_vars

\* the runs of the orchestrator alone, over storage that does not change:
\* no section or one section, with no mapping or with one curated mapping
\* of code 2
OrchestratorInit ==
    /\ csi_codes = CsiCodeIds
    /\ icc_documents = SeededDocuments
    /\ icc_sections \in
            SeqsUpTo({[document_id |-> d, sim |-> v] :
                            d \in DOMAIN SeededDocuments, v \in SearchSims}, 1)
    /\ mappings \in
            {<<>>} \cup
            {<< [csi_code_id |-> 2, icc_section_id |-> x,
                 relevance |-> "primary",
                 notes |-> [auto |-> FALSE, score |-> 0]] >> :
                x \in DOMAIN icc_sections}
    /\ autoflush = FALSE
    /\ session_new = <<>>
    /\ session_active = TRUE
    /\ process \in Processes(1, FALSE)
    /\ pc = "CuratedLookup"
    /\ req = NoRequest
    /\ result = None
    /\ matcher = None
    /\ calls = <<>>
    /\ response = None
    /\ matches = None
    /\ last = NoCall

\* the requests of the orchestrator's runs: a stored or an unknown code,
\* with every combination of the filters
OrchestratorRequests ==
    [csi_code : RequestCodes, state : StateFilters,
     year : YearFilters, icc_document : DocumentFilters]

OrchestratorNext ==
    \/ \E r \in OrchestratorRequests, f \in BOOLEAN : curated_lookup(r, f)
    \/ \E f \in Faults : fallback_match(f)
    \/ search_done

\* search_codes is a synchronous handler: once the curated lookup has
\* returned, the thread runs on through the fallback to the return
OrchestratorSpec ==
    /\ OrchestratorInit
    /\ [][OrchestratorNext]_vars
    /\ WF_vars(\E f \in Faults : fallback_match(f))


\* ---------------------------------------------------------- properties
\* the section s belongs to a document that passes the filters of request r
PassesFilters(s, r) ==
    LET d == icc_documents[icc_sections[s].document_id]
    IN  /\ (r.state # NULL => d.state = r.state)
        /\ (r.year # NoYear => d.year = r.year)
        /\ (r.icc_document # NULL => d.code = r.icc_document)

\* the sections a curated mapping links to the code of request r, under
\* r's filters
Curated(r) ==
    {s \in DOMAIN icc_sections :
        /\ PassesFilters(s, r)
        /\ \E i \in DOMAIN mappings :
                /\ mappings[i].csi_code_id = r.csi_code
                /\ mappings[i].icc_section_id = s}

\* the sections of the documents of family `code` (all, when NULL)
Corpus(code) ==
    {s \in DOMAIN icc_sections :
        code = NULL \/ icc_documents[icc_sections[s].document_id].code = code}

\* the "no_mappings" envelope of request r
NoMatchEnvelope(r) ==
    [status |-> 200,
     body |-> [csi_code |-> [id |-> r.csi_code],
               icc_sections |-> <<>>,
               total_results |-> 0,
               source |-> "no_mappings"]]

\* C1: when the curated lookup of an existing code returns at least one
\* section, search answers exactly those sections, tagged
\* "manual_mappings", and no matcher is constructed, initialized or asked.
\* (A step property: Curated is read from storage as the lookup finds it;
\* writers may change storage before and after.)
C1_CuratedHit ==
    [][ (/\ pc = "CuratedLookup"
         /\ calls' = << "search_csi_to_icc" >>
         /\ req'.csi_code \in csi_codes
         /\ Curated(req') # {})
        => /\ pc' = "Done"
           /\ response'.status = 200
           /\ response'.body.source = "manual_mappings"
           /\ Range(response'.body.icc_sections) = Curated(req')
           /\ Len(response'.body.icc_sections) = Cardinality(Curated(req'))
           /\ matcher' = None ]_vars

\* a curated answer under a year filter that leaves out another section
\* mapped to the same code
C1_Witness ==
    /\ pc = "Done"
    /\ response.status = 200
    /\ response.body.source = "manual_mappings"
    /\ req.year # NoYear
    /\ Len(response.body.icc_sections) = 1
    /\ Len(mappings) = 2
    /\ \A i \in DOMAIN mappings : mappings[i].csi_code_id = req.csi_code

\* C2: the tag is "manual_mappings" iff the curated lookup returned a
\* section (the search then answers at once, and enters the fallback iff
\* the lookup returned none); a fallback's answer is tagged
\* "keyword_matching" iff the fallback produced a section and
\* "no_mappings" iff the answer has no section.
C2_ProvenanceTag ==
    [][ /\ (/\ pc = "CuratedLookup"
            /\ calls' = << "search_csi_to_icc" >>
            /\ req'.csi_code \in csi_codes)
           => /\ (/\ pc' = "Done"
                  /\ response'.status = 200
                  /\ response'.body.source = "manual_mappings")
                    <=> (Curated(req') # {})
              /\ (pc' = "FallbackMatch") <=> (Curated(req') = {})
        /\ (pc = "FallbackMatch" /\ pc' = "Done" /\ response'.status = 200)
           => /\ response'.body.source # "manual_mappings"
              /\ (response'.body.source = "keyword_matching")
                    <=> (response'.body.icc_sections # <<>>)
              /\ (response'.body.source = "no_mappings")
                    <=> (response'.body.icc_sections = <<>>) ]_vars

\* C4: no step of search (the curated lookup, the fallback to the return)
\* changes the mapping table, and the table changes only in a
\* create_mapping or create_keyword_mappings call.
C4_SearchNeverPersists ==
    [][/\ ((pc # "Done" /\ pc' # pc) => mappings' = mappings)
       /\ (mappings' # mappings =>
                last'.op \in {"create_mapping", "create_keyword_mappings"})]_vars

\* a fallback answer with suggestions, none of them stored
C4_Witness ==
    /\ pc = "Done"
    /\ response.status = 200
    /\ response.body.source = "keyword_matching"
    /\ response.body.icc_sections # <<>>
    /\ \A i \in DOMAIN mappings : mappings[i].csi_code_id # req.csi_code

\* C5: a search for a code that storage does not hold ends with 404
\* "CSI code not found" and never reaches the fallback stage.
C5_UnknownQueryCode ==
    (/\ pc \in {"FallbackMatch", "Done"}
     /\ calls[1] = "search_csi_to_icc"
     /\ req.csi_code \notin csi_codes)
    => /\ pc = "Done"
       /\ response = [status |-> 404, detail |-> "CSI code not found"]
       /\ matcher = None
       /\ calls = << "search_csi_to_icc" >>

\* an unknown code searched while the corpus holds sections
C5_Witness ==
    /\ pc = "Done"
    /\ response.status = 404
    /\ req.csi_code \notin csi_codes
    /\ icc_sections # <<>>

\* C6: an existing code without curated mapping, searched when the
\* requested document family has no section, gets the "no_mappings"
\* envelope with zero sections and no error.
C6_EmptyCorpus ==
    (/\ pc = "Done"
     /\ calls[1] = "search_csi_to_icc"
     /\ "query_csi_code:raise" \notin Range(calls)
     /\ req.csi_code \in csi_codes
     /\ Curated(req) = {}
     /\ Corpus(req.icc_document) = {})
    => response = NoMatchEnvelope(req)

\* initialize raised on a family without sections though the table has some
C6_Witness ==
    /\ pc = "Done"
    /\ req.csi_code \in csi_codes
    /\ req.icc_document # NULL
    /\ icc_sections # <<>>
    /\ Corpus(req.icc_document) = {}
    /\ calls = << "search_csi_to_icc", "query_csi_code", "KeywordMatcher",
                  "initialize:raise" >>
    /\ response.status = 200

\* the calls of the fallback stage (codes.py 186-221) when they raise
FallbackFailures ==
    {"query_csi_code:raise", "initialize:raise", "find_matches:raise",
     "assemble:raise"}

\* C7: whatever a call of the fallback stage raises (the CSICode query
\* that opens the stage, initialize, find_matches, the assembling loop),
\* the caller gets the "no_mappings" envelope with an empty section list
\* and total_results 0, never an error.
C7_FallbackFailureCaught ==
    (/\ pc = "Done"
     /\ \E i \in DOMAIN calls : calls[i] \in FallbackFailures)
    => response = NoMatchEnvelope(req)

\* the part of C7 the code has: what is raised inside the try block
\* (initialize, find_matches, the assembling loop) is caught
TryBlockFailureCaught ==
    (/\ pc = "Done"
     /\ \E i \in DOMAIN calls :
            calls[i] \in FallbackFailures \ {"query_csi_code:raise"})
    => response = NoMatchEnvelope(req)

\* C8: a curated lookup that raises reaches the caller as an error: no
\* envelope is produced and the fallback stage is not entered.
C8_CuratedFailurePropagates ==
    (/\ pc \in {"FallbackMatch", "Done"}
     /\ calls[1] = "search_csi_to_icc:raise")
    => /\ pc = "Done"
       /\ response = [status |-> 500]
       /\ matcher = None
       /\ calls = << "search_csi_to_icc:raise" >>

\* the lookup raised for an existing code while the corpus holds sections
C8_Witness ==
    /\ pc = "Done"
    /\ calls = << "search_csi_to_icc:raise" >>
    /\ req.csi_code \in csi_codes
    /\ icc_sections # <<>>
    /\ response.status = 500

\* the rows of the mappings table t for the pair (csi code c, section x)
RowsFor(t, c, x) ==
    {i \in DOMAIN t : t[i].csi_code_id = c /\ t[i].icc_section_id = x}

\* the sections of the table a fresh matcher filtered by `code` would rank
\* at min_score or better for CSI code q
Clearing(q, code, min_score) ==
    {x \in Corpus(code) : icc_sections[x].sim[q] >= min_score}

\* C3: a find_matches call that returns gives at most top_n results, each
\* with a score of at least min_score, in non-increasing score order; and
\* a "keyword_matching" search response carries the sections of such a
\* call made with top_n = 10 and min_score = 0.1, each section being one
\* of the corpus whose similarity to the query is that score.
C3_BoundedOrderedMatches ==
    /\ (matches # None /\ matches.raised = NULL) =>
        /\ Len(matches.results) <= matches.top_n
        /\ \A k \in DOMAIN matches.results :
                matches.results[k].score >= matches.min_score
        /\ \A j, k \in DOMAIN matches.results :
                j < k => matches.results[j].score >= matches.results[k].score
    /\ (pc = "Done" /\ response.status = 200
            /\ response.body.source = "keyword_matching") =>
        /\ matches # None /\ matches.raised = NULL
        /\ matches.top_n = SearchTopN /\ matches.min_score = SearchMinScore
        /\ response.body.icc_sections =
                [k \in DOMAIN matches.results |-> matches.results[k].section]
        /\ response.body.total_results = Len(matches.results)
        /\ Len(response.body.icc_sections) <= SearchTopN
        /\ \A k \in DOMAIN matches.results :
                /\ matches.results[k].section \in
                        Clearing(req.csi_code, req.icc_document, SearchMinScore)
                /\ matches.results[k].score =
                        icc_sections[matches.results[k].section].sim[req.csi_code]

\* a search whose fallback had more than top_n sections at min_score or
\* better, and returned exactly top_n of them
C3_Witness ==
    /\ pc = "Done" /\ response.status = 200
    /\ response.body.source = "keyword_matching"
    /\ Cardinality(Clearing(req.csi_code, req.icc_document, SearchMinScore))
            > SearchTopN
    /\ Len(response.body.icc_sections) = SearchTopN
    /\ \E j, k \in DOMAIN matches.results :
            matches.results[j].score > matches.results[k].score

\* the match list ms names no section twice
DistinctSections(ms) ==
    \A j, k \in DOMAIN ms : ms[j].section = ms[k].section => j = k

\* what idempotence asks of a repeated call: the first call returned and
\* left exactly one mapping for every listed pair, the second call adds no
\* row, returns 0 and leaves the mappings table as it found it
SecondCallCreatesNothing ==
    /\ last.first.raised = NULL
    /\ last.raised = NULL
    /\ last.ret = 0
    /\ last.added = <<>>
    /\ mappings = last.stored
    /\ \A k \in DOMAIN last.matches :
            Cardinality(RowsFor(mappings, last.csi_code_id,
                                last.matches[k].section)) = 1

\* C9: when create_keyword_mappings is called a second time, in sequence,
\* with the same code and the same list of match results, the first call
\* has created each mapping once, and the second call adds no row,
\* returns 0 and leaves the stored mappings as it found them.  In
\* sequence: the first call was made on a session whose transaction could
\* be used, and no other request committed a mapping while it ran.  A
\* list of match results names each section once; a list that names a
\* section twice is covered on a session that autoflushes.
C9_SynthesizerIdempotent ==
    (/\ last.op = "create_keyword_mappings"
     /\ last.again
     /\ last.first.usable
     /\ last.first.undisturbed
     /\ (autoflush \/ DistinctSections(last.matches))) =>
        SecondCallCreatesNothing

\* a second call with a two-section list, after a first call that created
\* both mappings
C9_Witness ==
    /\ last.op = "create_keyword_mappings"
    /\ last.again
    /\ last.first.usable
    /\ last.first.undisturbed
    /\ DistinctSections(last.matches)
    /\ Len(last.matches) = 2
    /\ last.first.ret = 2
    /\ last.ret = 0
    /\ Len(mappings) = 2

\* C10: the mappings table never holds two rows for one (CSI code, section)
\* pair, and a call that would create a second row for a pair is rejected
\* silently: create_mapping on a stored pair, and create_keyword_mappings
\* with any match list, end without an error and keep the stored rows.
C10_SilentDuplicateRejection ==
    /\ uix_csi_icc(mappings)
    /\ (/\ last.op = "create_mapping"
        /\ last.status # 404
        /\ RowsFor(last.before, last.csi_code_id, last.icc_section_id) # {}) =>
            /\ last.raised = NULL
            /\ last.status # 500
            /\ mappings = last.before
    /\ last.op = "create_keyword_mappings" =>
            /\ last.raised = NULL
            /\ SubSeq(mappings, 1, Len(last.before)) = last.before

\* the match dicts of ms that the synthesizer can read
WellFormed(ms) == \A k \in DOMAIN ms : MatchKeys \subseteq DOMAIN ms[k]

\* C11: a create_keyword_mappings call leaves every mapping that was
\* stored before it as it was (same pair, relevance and notes, same place
\* in the table), whatever tier the matches would map to now: rows are only
\* added after the stored ones, or skipped.
C11_ExistingMappingsUntouched ==
    last.op = "create_keyword_mappings" =>
        /\ Len(mappings) >= Len(last.before)
        /\ \A i \in DOMAIN last.before : mappings[i] = last.before[i]

\* a call that returned, inserted a mapping, and skipped a match whose
\* stored mapping has another relevance than the match would get
C11_Witness ==
    /\ last.op = "create_keyword_mappings"
    /\ last.raised = NULL
    /\ last.ret > 0
    /\ WellFormed(last.matches)
    /\ \E k \in DOMAIN last.matches, i \in DOMAIN last.before :
            /\ last.before[i].csi_code_id = last.csi_code_id
            /\ last.before[i].icc_section_id = last.matches[k].section
            /\ last.before[i].relevance #
                    relevance_get(DefaultRelevanceMap, last.matches[k].confidence)
            /\ mappings[i] = last.before[i]

Tier(confidence) ==
    CASE confidence = "very_low" -> 0
      [] confidence = "low" -> 1
      [] confidence = "medium" -> 2
      [] confidence = "high" -> 3

\* C14: every score gets exactly one of the four tiers: 'high' from 0.5
\* up, 'medium' from 0.3 to below 0.5, 'low' from 0.15 to below 0.3,
\* 'very_low' below 0.15 (so 0.5, 0.3 and 0.15 fall in the higher tier), and
\* a higher score never gets a lower tier.
C14_ConfidenceThresholds ==
    last.op = "_score_to_confidence" =>
        /\ last.confidence \in {"high", "medium", "low", "very_low"}
        /\ (last.confidence = "high") <=> (last.score >= 500)
        /\ (last.confidence = "medium") <=> (300 <= last.score /\ last.score < 500)
        /\ (last.confidence = "low") <=> (150 <= last.score /\ last.score < 300)
        /\ (last.confidence = "very_low") <=> (last.score < 150)
        /\ Tier(last.confidence) <= Tier(_score_to_confidence(last.score + 1))
        /\ last.score > 0 =>
                Tier(_score_to_confidence(last.score - 1)) <= Tier(last.confidence)

\* the classifier applied to the boundary score 0.3
C14_Witness ==
    /\ last.op = "_score_to_confidence"
    /\ last.score = 300
    /\ last.confidence = "medium"

\* some call of the request in flight raised
SomeCallRaised == \E i \in DOMAIN calls :
    calls[i] \in {"search_csi_to_icc:raise", "query_csi_code:raise",
                  "initialize:raise", "find_matches:raise", "assemble:raise"}

\* the request served has an existing code without curated mapping, and
\* exactly one section of the corpus clears min_score, with a score in
\* [0.3, 0.5)
OneMediumSection ==
    /\ pc = "Done"
    /\ calls # <<>>
    /\ ~SomeCallRaised
    /\ req.csi_code \in csi_codes
    /\ Curated(req) = {}
    /\ Cardinality(Clearing(req.csi_code, req.icc_document, SearchMinScore)) = 1
    /\ \A x \in Clearing(req.csi_code, req.icc_document, SearchMinScore) :
            /\ 300 <= icc_sections[x].sim[req.csi_code]
            /\ icc_sections[x].sim[req.csi_code] < 500

\* what search does in that case: one suggestion, tagged
\* "keyword_matching", whose match dict has confidence 'medium'
OneMediumSuggestion ==
    OneMediumSection =>
        /\ response.status = 200
        /\ response.body.source = "keyword_matching"
        /\ response.body.total_results = 1
        /\ Range(response.body.icc_sections) =
                Clearing(req.csi_code, req.icc_document, SearchMinScore)
        /\ matches.results[1].confidence = "medium"

\* C15: in that case the search result is tagged "keyword_matching", has
\* exactly one suggested section, and reports confidence 'medium' for it.
C15_MediumSuggestionReported ==
    OneMediumSection =>
        /\ response.status = 200
        /\ response.body.source = "keyword_matching"
        /\ Len(response.body.icc_sections) = 1
        /\ \/ /\ "confidence" \in DOMAIN response.body
              /\ response.body.confidence = <<"medium">>
           \/ /\ "confidence" \in
                    DOMAIN ICCSectionWithDocument(response.body.icc_sections[1])
              /\ ICCSectionWithDocument(response.body.icc_sections[1]).confidence
                    = "medium"

\* the texts of the list `fields` that are not empty, joined by one space
JoinPresent(fields) ==
    LET Present(t) == t # <<>>
    IN  join(SelectSeq(fields, Present))

\* "chapter N" for a chapter that is set and not 0 (which Python's `if`
\* treats like None), nothing otherwise
ChapterPhrase(chapter) ==
    CASE chapter = <<5>> -> <<"chapter", " ", "5">>
      [] chapter = <<12>> -> <<"chapter", " ", "1", "2">>
      [] OTHER -> <<>>

\* C16 as stated: the text is the single-space join of the present fields
\* in the order section number, title, title, 'chapter N' when a chapter
\* is set, description.
C16_SearchableTextOrder ==
    last.op = "_create_searchable_text" =>
        last.text =
            JoinPresent(<< last.section.section_number,
                           last.section.title,
                           last.section.title,
                           ChapterPhrase(last.section.chapter),
                           last.section.description >>)

\* C16 amended: the text is the single-space join of the present fields in
\* the order section number, title, title, description, then 'chapter N'
\* when the chapter is set and not 0; an absent field contributes nothing.
C16_SearchableTextAmended ==
    last.op = "_create_searchable_text" =>
        last.text =
            JoinPresent(<< last.section.section_number,
                           last.section.title,
                           last.section.title,
                           last.section.description,
                           ChapterPhrase(last.section.chapter) >>)

\* the text of a section that has all four fields: the description comes
\* before the chapter phrase
C16_Witness ==
    /\ last.op = "_create_searchable_text"
    /\ last.section.section_number = <<"501.1">>
    /\ last.section.title = <<"Water", " ", "Heaters">>
    /\ last.section.chapter = <<12>>
    /\ last.section.description = <<"General">>
    /\ last.text = <<"501.1", " ", "Water", " ", "Heaters", " ",
                     "Water", " ", "Heaters", " ", "General", " ",
                     "chapter", " ", "1", "2">>

\* the section list and the vectors of matcher m come from one successful
\* initialize: row i of the vectors is the similarity row of section i
Consistent(m) ==
    /\ m.fitted
    /\ Len(m.icc_sections) = Len(m.icc_vectors)
    /\ \A i \in DOMAIN m.icc_sections :
            m.icc_vectors[i] = icc_sections[m.icc_sections[i]].sim

\* the score of the matcher's i-th section for the code of the last
\* find_matches call
ScoreOf(i) == matcher.icc_vectors[i][matches.csi_code_id]

\* the matcher's sections that clear the min_score of the last call
ClearingIndices ==
    {i \in DOMAIN matcher.icc_vectors : ScoreOf(i) >= matches.min_score}

\* the place in the matcher's section list of the k-th result
IndexOf(k) ==
    CHOOSE i \in DOMAIN matcher.icc_sections :
        matcher.icc_sections[i] = matches.results[k].section

\* the places of the returned sections
ReturnedIndices == {IndexOf(k) : k \in DOMAIN matches.results}

\* C17: on a matcher whose corpus was built by a successful initialize,
\* find_matches raises nothing and returns min(top_n, k) results, where k
\* counts the corpus sections with score >= min_score: each result is one
\* of those sections (score = min_score included, below it never), with
\* its own score, none twice, and no section left out scores strictly
\* higher than a returned one; with k = 0 the result is the empty list.
C17_TopScoringAboveMinScore ==
    (matches # None /\ matcher # None /\ Consistent(matcher)) =>
        /\ matches.raised = NULL
        /\ Len(matches.results) =
                Min(matches.top_n, Cardinality(ClearingIndices))
        /\ \A k \in DOMAIN matches.results :
                /\ matches.results[k].section \in Range(matcher.icc_sections)
                /\ IndexOf(k) \in ClearingIndices
                /\ matches.results[k].score = ScoreOf(IndexOf(k))
                /\ \A j \in DOMAIN matches.results :
                        matches.results[j].section = matches.results[k].section
                            => j = k
                /\ \A i \in DOMAIN matcher.icc_sections \ ReturnedIndices :
                        ScoreOf(i) <= matches.results[k].score
        /\ ClearingIndices = {} => matches.results = <<>>

\* a call that kept a section scoring exactly min_score, dropped one below
\* min_score, and left out a clearing section because of top_n
C17_Witness ==
    /\ matches # None /\ matcher # None /\ Consistent(matcher)
    /\ matches.raised = NULL
    /\ \E k \in DOMAIN matches.results :
            matches.results[k].score = matches.min_score
    /\ \E i \in DOMAIN matcher.icc_vectors : ScoreOf(i) < matches.min_score
    /\ Len(matches.results) = matches.top_n
    /\ Cardinality(ClearingIndices) > matches.top_n

\* C18: on a matcher whose corpus was built by a successful initialize,
\* results with equal scores are listed in corpus order (the order in
\* which initialize loaded the sections), and a section left out has no
\* earlier place in the corpus than a returned section of the same score.
C18_TiesInCorpusOrder ==
    (/\ matches # None /\ matcher # None /\ Consistent(matcher)
     /\ matches.raised = NULL) =>
        /\ \A j, k \in DOMAIN matches.results :
                (j < k /\ matches.results[j].score = matches.results[k].score)
                    => IndexOf(j) < IndexOf(k)
        /\ \A k \in DOMAIN matches.results :
                \A i \in ClearingIndices \ ReturnedIndices :
                    ScoreOf(i) = matches.results[k].score => IndexOf(k) < i

\* C19: find_matches called on a matcher on which no initialize call has
\* completed (none was made, or every one raised) raises RuntimeError
\* ('Matcher not initialized') and returns no results; such a matcher
\* holds no fitted vectors.
C19_NotFittedRaises ==
    (/\ pc = "CuratedLookup" /\ matcher # None
     /\ ~(last.op = "initialize" /\ last.completed)) =>
        /\ ~matcher.fitted
        /\ matches # None =>
                /\ matches.raised = "RuntimeError"
                /\ matches.results = <<>>

\* a matcher whose only initialize calls failed on a corpus with a section
\* scoring above the threshold, asked for matches
C19_Witness ==
    /\ pc = "CuratedLookup" /\ matcher # None
    /\ last.op = "initialize" /\ last.raised # NULL /\ ~last.completed
    /\ matches # None /\ matches.raised = "RuntimeError"
    /\ \E i \in DOMAIN icc_sections :
            ~(icc_sections[i].sim[matches.csi_code_id] < matches.min_score)
    /\ matches.top_n > 0

\* C20: an initialize call whose query returns no section (the table is
\* empty, or no section belongs to the requested document family) raises
\* ValueError ('No ICC sections found in database') and does not reach
\* fit_transform: the matcher's vectors are what they were before the
\* call; a search whose matcher loaded no section leaves it unfitted.
C20_EmptyCorpusRaises ==
    [][ /\ (/\ pc = "CuratedLookup" /\ pc' = "CuratedLookup"
            /\ matcher # None /\ matcher' # None
            /\ last'.op = "initialize" /\ last'.fault # "load"
            /\ Selected(last'.icc_document_code) = {}) =>
                /\ last'.raised = "ValueError"
                /\ matcher'.icc_sections = <<>>
                /\ matcher'.icc_vectors = matcher.icc_vectors
                /\ matcher'.fitted = matcher.fitted
        /\ (/\ pc = "FallbackMatch" /\ matcher' # None
            /\ Selected(req.icc_document) = {}) =>
                /\ ~matcher'.fitted
                /\ matcher'.icc_vectors = <<>>
                /\ calls'[Len(calls')] = "initialize:raise" ]_vars

\* a fitted matcher re-initialized for a document family that has no
\* section while the table has sections, with fit_transform set to fail
\* if it were reached
C20_Witness ==
    /\ pc = "CuratedLookup" /\ matcher # None
    /\ last.op = "initialize" /\ last.fault = "fit"
    /\ last.icc_document_code # NULL
    /\ last.raised = "ValueError"
    /\ icc_sections # <<>>
    /\ matcher.fitted /\ matcher.icc_vectors # <<>>

\* the relevance the claim gives a confidence: under the default map
\* high is primary, medium is secondary, low and very_low are reference;
\* under a caller's map, the map's entry, and reference when it has none
ClaimedRelevance(relevance_map, confidence) ==
    IF relevance_map = None
    THEN CASE confidence = "high" -> "primary"
           [] confidence = "medium" -> "secondary"
           [] confidence = "low" -> "reference"
           [] confidence = "very_low" -> "reference"
    ELSE IF confidence \in DOMAIN relevance_map
    THEN relevance_map[confidence]
    ELSE "reference"

\* C21: every mapping create_keyword_mappings creates has the relevance
\* that the relevance map gives the confidence of the match it was
\* created from: default map high -> primary, medium -> secondary, low
\* and very_low -> reference; a confidence absent from a caller's map
\* gives reference.
C21_RelevanceFromConfidence ==
    (last.op = "create_keyword_mappings") =>
        \A j \in DOMAIN last.added :
            \E k \in DOMAIN last.matches :
                /\ last.matches[k].section = last.added[j].icc_section_id
                /\ last.matches[k].score = last.added[j].notes.score
                /\ last.added[j].relevance =
                        ClaimedRelevance(last.relevance_map,
                                         last.matches[k].confidence)

\* a call with a caller's map that has no entry for 'medium' created a
\* mapping from a medium match, after a default-map call stored a primary
\* mapping from a high match
C21_Witness ==
    /\ last.op = "create_keyword_mappings"
    /\ last.relevance_map = PartialRelevanceMap
    /\ last.raised = NULL /\ last.ret = 1
    /\ \E k \in DOMAIN last.matches : last.matches[k].confidence = "medium"
    /\ \E j \in DOMAIN last.added :
            /\ last.added[j].notes.score = 420
            /\ last.added[j].relevance = "reference"
    /\ \E i \in DOMAIN last.before :
            /\ last.before[i].notes.score = 700
            /\ last.before[i].relevance = "primary"

\* C22: in every state reached by initialize and find_matches calls on one
\* matcher, the matcher is unfitted or its section list and its vectors
\* describe the same sections in the same order (a failed initialize
\* leaves the earlier corpus whole), and no find_matches call fails on an
\* index that has no section.
C22_CorpusReplacedWholesale ==
    (matcher # None) =>
        /\ ~matcher.fitted \/ Consistent(matcher)
        /\ matches # None => matches.raised # "IndexError"

\* C23: a find_matches call leaves the matcher as it was (section list,
\* vectors, fitted state), and the result a caller holds is what a call
\* with the same code, top_n and min_score returns on that matcher: until
\* the next initialize, calls with the same arguments return the same
\* result list, whatever other find_matches calls come between.
C23_FindMatchesReadOnly ==
    /\ [](/\ pc = "CuratedLookup" /\ matcher # None /\ matches # None =>
            matches = matches_record(
                        find_matches(matcher, [id |-> matches.csi_code_id],
                                     matches.top_n, matches.min_score, "none"),
                        [id |-> matches.csi_code_id],
                        matches.top_n, matches.min_score))
    /\ [][ (/\ pc = "CuratedLookup" /\ pc' = "CuratedLookup"
            /\ matcher # None /\ matches' # None) =>
                /\ matcher' = matcher
                /\ (/\ matches # None
                    /\ matches.csi_code_id = matches'.csi_code_id
                    /\ matches.top_n = matches'.top_n
                    /\ matches.min_score = matches'.min_score) =>
                        matches' = matches ]_vars

\* a direct find_matches call on an initialized matcher returned two
\* sections
C23_Witness ==
    /\ pc = "CuratedLookup" /\ matcher # None /\ Consistent(matcher)
    /\ last.op = "initialize" /\ last.raised = NULL
    /\ matches # None /\ matches.raised = NULL
    /\ Len(matches.results) = 2
    /\ matches.top_n = 2

\* what search_codes may return for request r when it runs alone on the
\* storage: a curated result (in one of the orders the lookup may list
\* it), or the fallback on a matcher of its own (its corpus in one of the
\* orders initialize's query may list it)
SearchAlone(r) ==
    LET init(scan) == initialize(KeywordMatcher, r.icc_document, "none", scan)
        ranked(scan) == find_matches(init(scan).matcher, get_csi_code(r.csi_code),
                                     SearchTopN, SearchMinScore, "none")
        Envelope(found, sections, tag) ==
            [status |-> 200,
             body |-> [csi_code |-> found.csi_code,
                       icc_sections |-> sections,
                       total_results |-> Len(sections),
                       source |-> tag]]
        Answer(found, scan) ==
            IF found = None
            THEN [status |-> 404, detail |-> "CSI code not found"]
            ELSE IF Len(found.icc_sections) > 0
            THEN Envelope(found, found.icc_sections, "manual_mappings")
            ELSE IF init(scan).raised # NULL \/ ranked(scan).raised # NULL
            THEN Envelope(found, <<>>, "no_mappings")
            ELSE Envelope(found,
                          [k \in DOMAIN ranked(scan).results |->
                                ranked(scan).results[k].section],
                          "keyword_matching")
    IN  {Answer(found, scan) :
            found \in search_csi_to_icc(r.csi_code, r.state, r.year,
                                        r.icc_document),
            scan \in ScanOrders(Len(icc_sections))}

\* C24: under every interleaving of two concurrent search calls over
\* unchanged storage, each call returns what it may return when run alone,
\* and the matcher an invocation ranks with is the one it built itself
\* from its own document filter.
C24_SearchesIndependent ==
    \A p \in Invocations :
        /\ pc[p] = "Done" => response[p] \in SearchAlone(req[p])
        /\ pc[p] = "FindMatches" =>
                \E scan \in ScanOrders(Len(icc_sections)) :
                    matcher[p] = initialize(KeywordMatcher, req[p].icc_document,
                                            "none", scan).matcher

\* both invocations ran their fallback interleaved (both initialized
\* before either ranked), with different document filters, and returned
\* different suggestions
C24_Witness ==
    /\ pc[1] = "Done" /\ pc[2] = "Done"
    /\ req[1].icc_document # req[2].icc_document
    /\ response[1].status = 200 /\ response[2].status = 200
    /\ response[1].body.source = "keyword_matching"
    /\ response[2].body.source = "keyword_matching"
    /\ response[1].body.icc_sections # response[2].body.icc_sections
    /\ \E i, j \in DOMAIN calls :
            /\ i < j
            /\ calls[i] = << 2, "initialize" >>
            /\ calls[j] = << 1, "find_matches" >>
    /\ \E i, j \in DOMAIN calls :
            /\ i < j
            /\ calls[i] = << 1, "initialize" >>
            /\ calls[j] = << 2, "find_matches" >>

\* the three provenance tags (codes.py 221, 226, 228, 230)
SourceTags == {"manual_mappings", "keyword_matching", "no_mappings"}

\* the steps of the orchestrator: the curated lookup is the first call of
\* an invocation; the fallback stage is entered only from the curated
\* lookup, for a stored code whose curated set is empty; the fallback
\* stage is left only for Done, and Done only for the next invocation
OrchestratorSteps ==
    /\ (pc = "CuratedLookup" /\ pc' # "CuratedLookup") =>
            /\ pc' \in {"FallbackMatch", "Done"}
            /\ Len(calls') = 1
            /\ calls'[1] \in {"search_csi_to_icc", "search_csi_to_icc:raise"}
    /\ pc' = "FallbackMatch" =>
            /\ pc = "CuratedLookup"
            /\ calls' = << "search_csi_to_icc" >>
            /\ req'.csi_code \in csi_codes
            /\ Curated(req') = {}
    /\ pc = "FallbackMatch" => pc' = "Done"
    /\ pc = "Done" => pc' = "CuratedLookup"

\* C25: every search invocation performs the curated lookup first, enters
\* the fallback stage at most once and only after the curated lookup
\* returned no section for a stored code, and always ends in Done, with
\* the 404 of an unknown code or with a result that carries one of the
\* three provenance tags.
C25_OrchestratorStateMachine ==
    /\ [][OrchestratorSteps]_vars
    /\ [](pc = "Done" =>
            \/ response.status = 404
            \/ response.status = 200 /\ response.body.source \in SourceTags)
    /\ (pc = "FallbackMatch" ~> pc = "Done")

\* C25 read with the hard error that the error taxonomy requires of a
\* failed curated lookup: an invocation may also end in Done with the
\* error of the curated lookup that raised, and nothing raised in the
\* fallback stage reaches the caller
OrchestratorWithCuratedHardError ==
    /\ [][OrchestratorSteps]_vars
    /\ [](pc = "Done" =>
            \/ response.status = 404
            \/ response.status = 200 /\ response.body.source \in SourceTags
            \/ /\ response.status = 500
               /\ calls = << "search_csi_to_icc:raise" >>)
    /\ (pc = "FallbackMatch" ~> pc = "Done")

\* the part of C25 the code has: the steps of the state machine, and
\* termination of the fallback stage
OrchestratorStepsAndTermination ==
    /\ [][OrchestratorSteps]_vars
    /\ (pc = "FallbackMatch" ~> pc = "Done")

\* the words of a text after lowercasing and whitespace splitting
WordsOf(text) == {lower(w) : w \in Range(split(text))}

\* the terms two texts share, stop words apart
Overlap(query, text) ==
    (WordsOf(query) \cap WordsOf(text)) \ stop_words

\* C26: _find_matched_keywords returns at most 5 terms; every term is a
\* word of both the query and the candidate text (lowercased, split on
\* whitespace) and no stop word; the terms come in non-increasing length,
\* and no shared term left out is longer than a returned one.
C26_MatchedKeywords ==
    (last.op = "_find_matched_keywords") =>
        LET kw == last.keywords
            shared == Overlap(last.query, last.text)
        IN  /\ Len(kw) <= 5
            /\ \A i \in DOMAIN kw :
                    /\ kw[i] \in WordsOf(last.query)
                    /\ kw[i] \in WordsOf(last.text)
                    /\ kw[i] \notin stop_words
            /\ \A i, j \in DOMAIN kw : i < j => Len(kw[i]) >= Len(kw[j])
            /\ \A w \in shared \ Range(kw) :
                    \A i \in DOMAIN kw : Len(w) <= Len(kw[i])

\* six shared terms, of which five are returned; the texts hold capitals
\* and a shared stop word, and the cut falls between two terms of equal
\* length
C26_Witness ==
    /\ last.op = "_find_matched_keywords"
    /\ Cardinality(Overlap(last.query, last.text)) = 6
    /\ Len(last.keywords) = 5
    /\ "and" \in WordsOf(last.query) \cap WordsOf(last.text)
    /\ last.keywords[1] = "heaters"
    /\ last.keywords[5] = "vent"
    /\ "pipe" \notin Range(last.keywords)

\* C27: every match dict find_matches returns is well formed: its section
\* is one of the matcher's sections and no other dict of the list has it,
\* its score lies between 0 and 1, its confidence is the classifier's
\* value for that score, and it lists at most 5 matched keywords.
C27_MatchResultWellFormed ==
    (matches # None /\ matcher # None /\ pc \in {"CuratedLookup", "Done"}) =>
        \A k \in DOMAIN matches.results :
            LET match == matches.results[k]
            IN  /\ match.section \in Range(matcher.icc_sections)
                /\ \A j \in DOMAIN matches.results :
                        matches.results[j].section = match.section => j = k
                /\ 0 <= match.score /\ match.score <= ScoreOne
                /\ match.confidence =
                        (IF match.score >= 500 THEN "high"
                         ELSE IF match.score >= 300 THEN "medium"
                         ELSE IF match.score >= 150 THEN "low"
                         ELSE "very_low")
                /\ Len(match.matched_keywords) <= 5

\* a result list of two dicts, one of them for a section that shares six
\* terms with the query and lists five of them
C27_Witness ==
    /\ matches # None /\ matcher # None /\ pc = "CuratedLookup"
    /\ matches.raised = NULL
    /\ Len(matches.results) = 2
    /\ \E k \in DOMAIN matches.results :
            /\ Len(matches.results[k].matched_keywords) = 5
            /\ Cardinality(
                    Overlap(_create_csi_query(csi_code_rows[matches.csi_code_id]),
                            _create_searchable_text(
                                section_columns(
                                    icc_documents[
                                        icc_sections[matches.results[k].section]
                                            .document_id].code)))) = 6
    /\ \E k \in DOMAIN matches.results :
            matches.results[k].matched_keywords = <<>>

\* the sections the two concurrent calls name that had no mapping for
\* code 1 when the calls started
NewPairs ==
    {s \in DOMAIN icc_sections :
        /\ \E p \in Invocations : \E k \in DOMAIN req[p].matches :
                req[p].matches[k].section = s
        /\ \A p \in Invocations : RowsFor(result[p].before, 1, s) = {}}

\* C28: when two concurrent create_keyword_mappings calls for the same
\* code with overlapping match lists have both returned, neither has
\* raised, every pair they name has exactly one mapping, and the two
\* returned counts sum to the number of pairs that had no mapping when
\* the calls started.
C28_ConcurrentSynthesis ==
    (\A p \in Invocations : pc[p] = "Returned") =>
        /\ \A p \in Invocations : response[p].raised = NULL
        /\ \A p \in Invocations : \A k \in DOMAIN req[p].matches :
                Cardinality(RowsFor(mappings, 1, req[p].matches[k].section)) = 1
        /\ response[1].ret + response[2].ret = Cardinality(NewPairs)

\* C29: every section a search returns, from the curated lookup or from
\* the fallback matcher, belongs to a document that satisfies every filter
\* the request supplies (state, year, document family).
C29_ResultsPassFilters ==
    (pc = "Done" /\ response.status = 200) =>
        \A k \in DOMAIN response.body.icc_sections :
            PassesFilters(response.body.icc_sections[k], req)

\* C30: in every result envelope search returns (curated, fallback with
\* matches, fallback without matches, fallback failure) total_results is
\* the number of sections in the envelope's list and the envelope carries
\* the row of the requested CSI code.
C30_EnvelopeConsistent ==
    (pc = "Done" /\ response.status = 200) =>
        /\ response.body.total_results = Len(response.body.icc_sections)
        /\ response.body.csi_code # None
        /\ response.body.csi_code = get_csi_code(req.csi_code)

\* a fallback that had ranked a section failed while assembling, for a
\* request whose filters hide a stored mapping of the code: the envelope
\* lists no section and counts none
C30_Witness ==
    /\ pc = "Done" /\ response.status = 200
    /\ calls[Len(calls)] = "assemble:raise"
    /\ matches # None /\ matches.results # <<>>
    /\ response.body.icc_sections = <<>>
    /\ response.body.total_results = 0
    /\ \E i \in DOMAIN mappings : mappings[i].csi_code_id = req.csi_code

====
